---------------------------- MODULE Spec2Model ----------------------------
(***************************************************************************)
(* A model of the VLA semantic-robustness experiment runner:               *)
(*   - src/mutation_generator.py : the instruction mutation engine,        *)
(*   - src/experiment_utils.py   : the CSV result ledger (append_csv),     *)
(*   - src/run_octo_robustness.py: calibration, baseline, mutation sweep   *)
(*                                 and the phase sequencing of main().     *)
(*                                                                         *)
(* Text is a sequence of one-character strings, so that the regular        *)
(* expressions and string methods of the mutation engine are computed      *)
(* character by character, as Python computes them.                        *)
(***************************************************************************)
EXTENDS Integers, Sequences, FiniteSets, TLC

(***************************************************************************)
(* State.                                                                  *)
(***************************************************************************)
VARIABLES
    phase,        \* --phase of this invocation
    cfg,          \* the dict _load_config returned
    pc,           \* where main() is
    action_scale, \* main's action_scale
    baseline_sr,  \* main's baseline_sr
    cal,          \* locals of calibrate_action_scale
    bl,           \* locals of run_baseline
    mu,           \* locals of run_mutations
    running,      \* the episode _run_episode is running: <<>> or <<episode>>
    ledger,       \* the file at results_path
    locked,       \* the file at locked_config_path: <<>> or <<content>>
    earlyLeft,    \* how many more baseline or sweep episodes of this run may end before max_steps
    calRates,     \* the rate of each candidate calibration has finished
    appended,     \* the rows handed to append_csv, in call order
    invocation,   \* the number of the process invocation
    mcall,        \* the generate_mutation call made last: <<>> or <<args>>
    mresult,      \* what that call returned: <<>> or <<[text, raised]>>
    rng,          \* the Random object made last
    probe,        \* an earlier call and its result, kept for comparison
    envs,         \* the frames that hold a simulator instance (env)
    models,       \* the frames that hold a policy instance (model)
    raised,       \* the episode in which a collaborator raised: <<>> or <<record>>
    lockWrites,   \* how many times the locked-config file has been written
    episode       \* locals of the _run_episode call looked at on its own: <<>> or <<locals>>

vars == << phase, cfg, pc, action_scale, baseline_sr, cal, bl, mu, running, ledger,
           locked, earlyLeft, calRates, appended, invocation, mcall, mresult, rng, probe,
           envs, models, raised, lockWrites, episode >>

runVars == << phase, cfg, pc, action_scale, baseline_sr, cal, bl, mu, running,
              locked, earlyLeft, calRates, envs, models, raised, lockWrites >>

simVars == << envs, models, raised, lockWrites >>

mutVars == << mcall, mresult, rng, probe >>


(***************************************************************************)
(* Python str / re primitives over sequences of characters.                *)
(***************************************************************************)

Uppers == <<"A","B","C","D","E","F","G","H","I","J","K","L","M",
            "N","O","P","Q","R","S","T","U","V","W","X","Y","Z">>

Lowers == <<"a","b","c","d","e","f","g","h","i","j","k","l","m",
            "n","o","p","q","r","s","t","u","v","w","x","y","z">>

Digits == {"0","1","2","3","4","5","6","7","8","9"}

Range(s) == {s[i] : i \in DOMAIN s}

\* \w of the re module (ASCII part): letters, digits and the underscore.
WordChars == Range(Uppers) \cup Range(Lowers) \cup Digits \cup {"_"}

\* \s of the re module and the default of str.strip().
Whitespace == {" ", "\t", "\n", "\r"}

LowerTable == [c \in Range(Uppers) |-> Lowers[CHOOSE i \in DOMAIN Uppers : Uppers[i] = c]]

UpperTable == [c \in Range(Lowers) |-> Uppers[CHOOSE i \in DOMAIN Lowers : Lowers[i] = c]]

LowerChar(c) == IF c \in DOMAIN LowerTable THEN LowerTable[c] ELSE c

UpperChar(c) == IF c \in DOMAIN UpperTable THEN UpperTable[c] ELSE c

\* str.lower()
Lower(s) == [i \in 1..Len(s) |-> LowerChar(s[i])]

\* str.capitalize(): first character upper-cased, the rest lower-cased.
Capitalize(s) == [i \in 1..Len(s) |-> IF i = 1 THEN UpperChar(s[i]) ELSE LowerChar(s[i])]

\* text[i:] with a 1-based i.
From(s, i) == SubSeq(s, i, Len(s))

\* str.strip()
Strip(s) ==
    LET keep == {i \in 1..Len(s) : s[i] \notin Whitespace}
    IN  IF keep = {} THEN <<>>
        ELSE SubSeq(s, CHOOSE i \in keep : \A j \in keep : i <= j,
                       CHOOSE i \in keep : \A j \in keep : i >= j)

\* The pattern `pat` matches at position i of `s`, case-sensitively.
MatchAt(s, pat, i) ==
    /\ i >= 1
    /\ i + Len(pat) - 1 <= Len(s)
    /\ \A k \in 1..Len(pat) : s[i + k - 1] = pat[k]

\* The same under re.IGNORECASE.
MatchAtI(s, pat, i) ==
    /\ i >= 1
    /\ i + Len(pat) - 1 <= Len(s)
    /\ \A k \in 1..Len(pat) : LowerChar(s[i + k - 1]) = LowerChar(pat[k])

\* \b just before position i of s (i in 1..Len(s)+1).
Boundary(s, i) ==
    LET before == i > 1 /\ s[i - 1] \in WordChars
        after  == i <= Len(s) /\ s[i] \in WordChars
    IN  before # after

\* \bkey\b matches at position i, under re.IGNORECASE.
WordMatchAt(s, key, i) ==
    /\ MatchAtI(s, key, i)
    /\ Boundary(s, i)
    /\ Boundary(s, i + Len(key))

\* `sub in s`
Contains(s, sub) == \E i \in 1..(Len(s) + 1) : MatchAt(s, sub, i)

\* re.search(rf"\b{key}\b", s, flags=re.IGNORECASE) is not None
SearchWord(s, key) == \E i \in 1..Len(s) : WordMatchAt(s, key, i)

\* re.sub(rf"\b{key}\b", repl, s, flags=re.IGNORECASE), from position i on:
\* every non-overlapping match, leftmost first, is replaced.
RECURSIVE SubWordFrom(_, _, _, _)
SubWordFrom(s, key, repl, i) ==
    IF i > Len(s) THEN <<>>
    ELSE IF WordMatchAt(s, key, i)
         THEN repl \o SubWordFrom(s, key, repl, i + Len(key))
         ELSE <<s[i]>> \o SubWordFrom(s, key, repl, i + 1)

SubWord(s, key, repl) == SubWordFrom(s, key, repl, 1)

\* re.sub(key, repl, s, flags=re.IGNORECASE) for a literal, non-empty key.
RECURSIVE SubPlainFrom(_, _, _, _)
SubPlainFrom(s, key, repl, i) ==
    IF i > Len(s) THEN <<>>
    ELSE IF MatchAtI(s, key, i)
         THEN repl \o SubPlainFrom(s, key, repl, i + Len(key))
         ELSE <<s[i]>> \o SubPlainFrom(s, key, repl, i + 1)

SubPlain(s, key, repl) == SubPlainFrom(s, key, repl, 1)

\* str.replace(old, new) for a non-empty old: case-sensitive.
RECURSIVE ReplaceFrom(_, _, _, _)
ReplaceFrom(s, old, new, i) ==
    IF i > Len(s) THEN <<>>
    ELSE IF MatchAt(s, old, i)
         THEN new \o ReplaceFrom(s, old, new, i + Len(old))
         ELSE <<s[i]>> \o ReplaceFrom(s, old, new, i + 1)

Replace(s, old, new) == ReplaceFrom(s, old, new, 1)

(***************************************************************************)
(* The mutation engine: src/mutation_generator.py.                         *)
(***************************************************************************)
\* replacements of _synonyms, in dict order
SynonymsReplacements ==
    << [key |-> <<"p","i","c","k">>,
        choices |-> << <<"g","r","a","b">>, <<"l","i","f","t">>, <<"t","a","k","e">> >>],
       [key |-> <<"m","o","v","e">>,
        choices |-> << <<"s","h","i","f","t">>, <<"r","e","l","o","c","a","t","e">>, <<"t","r","a","n","s","p","o","r","t">> >>],
       [key |-> <<"p","l","a","c","e">>,
        choices |-> << <<"p","u","t">>, <<"s","e","t">>, <<"p","o","s","i","t","i","o","n">> >>],
       [key |-> <<"p","u","t">>,
        choices |-> << <<"p","l","a","c","e">>, <<"s","e","t">>, <<"p","o","s","i","t","i","o","n">> >>],
       [key |-> <<"s","t","a","c","k">>,
        choices |-> << <<"p","i","l","e">>, <<"l","a","y","e","r">> >>],
       [key |-> <<"o","p","e","n">>,
        choices |-> << <<"u","n","s","e","a","l">>, <<"u","n","l","o","c","k">>, <<"p","u","l","l"," ","o","p","e","n">> >>],
       [key |-> <<"c","l","o","s","e">>,
        choices |-> << <<"s","h","u","t">>, <<"s","e","a","l">>, <<"p","u","s","h"," ","c","l","o","s","e","d">> >>],
       [key |-> <<"i","n","t","o">>,
        choices |-> << <<"i","n","s","i","d","e">>, <<"i","n">> >>],
       [key |-> <<"o","n">>,
        choices |-> << <<"o","n"," ","t","o","p"," ","o","f">> >>] >>

\* replacements of _spatial_reordering's fallback, in dict order
SpatialReplacements ==
    << [key |-> <<"l","e","f","t">>,
        choices |-> << <<"o","n"," ","t","h","e"," ","l","e","f","t">>, <<"t","o"," ","y","o","u","r"," ","l","e","f","t">> >>],
       [key |-> <<"r","i","g","h","t">>,
        choices |-> << <<"o","n"," ","t","h","e"," ","r","i","g","h","t">>, <<"t","o"," ","y","o","u","r"," ","r","i","g","h","t">> >>],
       [key |-> <<"f","r","o","n","t">>,
        choices |-> << <<"i","n"," ","f","r","o","n","t">>, <<"a","h","e","a","d">> >>],
       [key |-> <<"b","e","h","i","n","d">>,
        choices |-> << <<"i","n"," ","t","h","e"," ","b","a","c","k">>, <<"b","e","h","i","n","d"," ","y","o","u">> >>] >>

\* replacements of _formal_informal, in dict order
FormalReplacements ==
    << [key |-> <<"g","e","t">>,
        choices |-> << <<"r","e","t","r","i","e","v","e">>, <<"o","b","t","a","i","n">> >>],
       [key |-> <<"g","r","a","b">>,
        choices |-> << <<"r","e","t","r","i","e","v","e">>, <<"o","b","t","a","i","n">> >>],
       [key |-> <<"t","a","k","e">>,
        choices |-> << <<"r","e","t","r","i","e","v","e">>, <<"o","b","t","a","i","n">> >>],
       [key |-> <<"m","o","v","e">>,
        choices |-> << <<"r","e","l","o","c","a","t","e">>, <<"t","r","a","n","s","p","o","r","t">> >>],
       [key |-> <<"p","u","t">>,
        choices |-> << <<"p","l","a","c","e">>, <<"d","e","p","o","s","i","t">> >>],
       [key |-> <<"p","i","c","k">>,
        choices |-> << <<"r","e","t","r","i","e","v","e">>, <<"l","i","f","t">> >>] >>

\* replacements of _verb_phrasing, in dict order
VerbReplacements ==
    << [key |-> <<"p","i","c","k"," ","u","p">>,
        choices |-> << <<"l","i","f","t"," ","u","p">>, <<"r","a","i","s","e">>, <<"c","o","l","l","e","c","t">> >>],
       [key |-> <<"m","o","v","e">>,
        choices |-> << <<"m","o","v","e"," ","o","v","e","r">>, <<"c","a","r","r","y">>, <<"b","r","i","n","g">> >>],
       [key |-> <<"p","l","a","c","e">>,
        choices |-> << <<"s","e","t"," ","d","o","w","n">>, <<"p","u","t"," ","d","o","w","n">> >>],
       [key |-> <<"p","u","t">>,
        choices |-> << <<"s","e","t"," ","d","o","w","n">>, <<"d","r","o","p"," ","o","f","f">> >>],
       [key |-> <<"s","t","a","c","k">>,
        choices |-> << <<"p","i","l","e"," ","u","p">>, <<"s","t","a","c","k"," ","u","p">> >>],
       [key |-> <<"o","p","e","n">>,
        choices |-> << <<"p","u","l","l"," ","o","p","e","n">>, <<"s","w","i","n","g"," ","o","p","e","n">> >>],
       [key |-> <<"c","l","o","s","e">>,
        choices |-> << <<"p","u","s","h"," ","s","h","u","t">>, <<"s","w","i","n","g"," ","s","h","u","t">> >>] >>

\* replacements of _object_descriptors, in dict order
ObjectReplacements ==
    << [key |-> <<"r","e","d">>,
        choices |-> << <<"c","r","i","m","s","o","n">>, <<"s","c","a","r","l","e","t">> >>],
       [key |-> <<"g","r","e","e","n">>,
        choices |-> << <<"e","m","e","r","a","l","d">>, <<"l","i","m","e">> >>],
       [key |-> <<"b","l","u","e">>,
        choices |-> << <<"a","z","u","r","e">>, <<"n","a","v","y">> >>],
       [key |-> <<"c","o","k","e">>,
        choices |-> << <<"s","o","d","a">>, <<"c","o","l","a">> >>],
       [key |-> <<"e","g","g","p","l","a","n","t">>,
        choices |-> << <<"p","u","r","p","l","e"," ","e","g","g","p","l","a","n","t">>, <<"f","r","e","s","h"," ","e","g","g","p","l","a","n","t">> >>],
       [key |-> <<"b","a","s","k","e","t">>,
        choices |-> << <<"w","i","r","e"," ","b","a","s","k","e","t">>, <<"s","m","a","l","l"," ","b","a","s","k","e","t">> >>],
       [key |-> <<"c","a","r","r","o","t">>,
        choices |-> << <<"o","r","a","n","g","e"," ","c","a","r","r","o","t">>, <<"f","r","e","s","h"," ","c","a","r","r","o","t">> >>] >>

\* replacements of _directional_language, in dict order
DirectionReplacements ==
    << [key |-> <<"t","o","w","a","r","d">>,
        choices |-> << <<"i","n"," ","t","h","e"," ","d","i","r","e","c","t","i","o","n"," ","o","f">>, <<"c","l","o","s","e","r"," ","t","o">> >>],
       [key |-> <<"n","e","a","r">>,
        choices |-> << <<"c","l","o","s","e"," ","t","o">>, <<"a","d","j","a","c","e","n","t"," ","t","o">> >>],
       [key |-> <<"a","w","a","y">>,
        choices |-> << <<"f","a","r","t","h","e","r"," ","f","r","o","m">>, <<"f","u","r","t","h","e","r"," ","f","r","o","m">> >>] >>

TxtPlease == <<"P","l","e","a","s","e"," ">>

TxtHey == <<"H","e","y",","," ">>

TxtGoAhead == <<"G","o"," ","a","h","e","a","d"," ","a","n","d"," ">>

TxtShouldBeDone == <<" ","s","h","o","u","l","d"," ","b","e"," ","d","o","n","e",".">>

TxtShouldBePerformed == <<" ","s","h","o","u","l","d"," ","b","e"," ","p","e","r","f","o","r","m","e","d",".">>

TxtShouldBe == <<" ","s","h","o","u","l","d"," ","b","e"," ">>

TxtEd == <<"e","d",".">>

TxtLeftSide == <<" ","o","n"," ","t","h","e"," ","l","e","f","t"," ","s","i","d","e",".">>

TxtItemInView == <<" ","u","s","i","n","g"," ","t","h","e"," ","i","t","e","m"," ","i","n"," ","v","i","e","w",".">>

TxtTowardTarget == <<" ","t","o","w","a","r","d"," ","t","h","e"," ","t","a","r","g","e","t",".">>

TxtRightAwaySuffix == <<" ","r","i","g","h","t"," ","a","w","a","y",".">>

TxtNow == <<"n","o","w">>

TxtDont == <<"d","o","n","'","t">>

TxtDoNot == <<"d","o"," ","n","o","t">>

TxtAvoid == <<"a","v","o","i","d">>

TxtCarefully == <<"c","a","r","e","f","u","l","l","y">>

TxtCarefullyPrefix == <<"C","a","r","e","f","u","l","l","y"," ">>

TxtCommaSpace == <<","," ">>

TemporalChoices == << <<"r","i","g","h","t"," ","a","w","a","y">>, <<"i","m","m","e","d","i","a","t","e","l","y">> >>

NegationLeads == << <<"D","o","n","'","t"," ","f","o","r","g","e","t"," ","t","o">>, <<"P","l","e","a","s","e"," ","r","e","m","e","m","b","e","r"," ","t","o">>, <<"M","a","k","e"," ","s","u","r","e"," ","t","o">> >>

SpatialPrepositions == << <<"i","n","t","o">>, <<"i","n">>, <<"o","n">>, <<"i","n","s","i","d","e">> >>


(***************************************************************************)
(* random.Random(seed): the Mersenne Twister stream of 32-bit words.       *)
(* rng.choice(seq) is seq[_randbelow(len(seq))]; _randbelow(n) draws       *)
(* getrandbits(n.bit_length()) (the top bits of the next word) until the   *)
(* value is below n.  Every list the mutation engine chooses from has at   *)
(* most three entries, so only the two top bits of each word are read:     *)
(* MTTopBits[seed] lists them for the first words of random.Random(seed).  *)
(***************************************************************************)
MTTopBits ==
    [s \in 0..3 |->
       CASE s = 0 -> <<3,1,3,3,1,0,1,3,2,1,1,3,3,3,1,3,1,1,2,3,3,0,2,0,
                       1,0,3,0,2,3,1,3,3,2,3,2,3,2,3,0,1,0,2,0,3,3,2,1>>
         [] s = 1 -> <<0,2,3,3,3,0,1,0,1,3,1,1,2,1,3,0,0,1,0,3,3,1,1,2,
                       3,3,0,2,1,1,2,3,0,2,3,0,3,1,0,0,0,2,2,0,3,3,1,2>>
         [] s = 2 -> <<3,3,3,3,0,0,0,1,3,0,2,3,2,3,1,1,2,0,2,0,2,2,0,3,
                       1,2,1,3,2,3,3,2,3,1,2,3,1,2,1,3,0,3,0,1,1,3,1,3>>
         [] s = 3 -> <<0,2,2,0,1,3,2,1,2,2,0,2,0,3,3,1,1,2,0,0,3,2,1,2,
                       3,2,1,1,2,3,0,0,2,0,3,3,2,1,2,0,2,3,0,0,3,3,2,0>>]

\* The state of a Random object: its seed and the number of words drawn.
\* A faulty variant of NewRandom: one Random object shared by all calls, so
\* that a call goes on from where the call before it stopped.
SharedRandom(seed) == rng

NewRandom(seed) == [seed |-> seed, pos |-> 0]

\* getrandbits(k) for k in {1, 2}, on the word at position pos + 1.
GetRandBits(r, k) == IF k = 1 THEN MTTopBits[r.seed][r.pos + 1] \div 2
                     ELSE MTTopBits[r.seed][r.pos + 1]

\* n.bit_length() for n in 1..3.
BitLength(n) == IF n = 1 THEN 1 ELSE 2

\* _randbelow(n): [value, rng] after rejecting the draws that are >= n.
RECURSIVE RandBelow(_, _)
RandBelow(r, n) ==
    LET v    == GetRandBits(r, BitLength(n))
        next == [r EXCEPT !.pos = r.pos + 1]
    IN  IF v < n THEN [value |-> v, rng |-> next] ELSE RandBelow(next, n)

\* rng.choice(choices): [value, rng].
Choice(r, choices) ==
    LET d == RandBelow(r, Len(choices))
    IN  [value |-> choices[d.value + 1], rng |-> d.rng]

(***************************************************************************)
(* The mutators.  Each returns [text, rng, raised]: the text returned, the *)
(* Random object after the draws made, and whether the call ended in an    *)
(* IndexError (text[0] of an empty instruction).                           *)
(***************************************************************************)
Ret(t, r) == [text |-> t, rng |-> r, raised |-> FALSE]

Raise(r) == [text |-> <<>>, rng |-> r, raised |-> TRUE]

\* text[0].lower() + text[1:], for a non-empty text.
LowerFirst(text) == <<LowerChar(text[1])>> \o From(text, 2)

\* _replace_any from the k-th replacement on: the first key found is
\* replaced everywhere by one choice.
RECURSIVE ReplaceAnyFrom(_, _, _, _)
ReplaceAnyFrom(text, replacements, r, k) ==
    IF k > Len(replacements) THEN Ret(text, r)
    ELSE IF SearchWord(text, replacements[k].key)
         THEN LET c == Choice(r, replacements[k].choices)
              IN  Ret(SubWord(text, replacements[k].key, c.value), c.rng)
         ELSE ReplaceAnyFrom(text, replacements, r, k + 1)

ReplaceAny(text, replacements, r) == ReplaceAnyFrom(text, replacements, r, 1)

\* The test of _ensure_change: is the mutated text the original, up to
\* surrounding whitespace and letter case?
Unchanged(original, mutated) == Lower(Strip(mutated)) = Lower(Strip(original))

\* The loop of _synonyms from the k-th key on: [text, rng, changed].
RECURSIVE SynonymsLoop(_, _, _, _)
SynonymsLoop(mutated, changed, r, k) ==
    IF k > Len(SynonymsReplacements)
    THEN [text |-> mutated, rng |-> r, changed |-> changed]
    ELSE IF SearchWord(mutated, SynonymsReplacements[k].key)
         THEN LET c == Choice(r, SynonymsReplacements[k].choices)
              IN  SynonymsLoop(SubWord(mutated, SynonymsReplacements[k].key, c.value),
                               TRUE, c.rng, k + 1)
         ELSE SynonymsLoop(mutated, changed, r, k + 1)

Synonyms(text, r) ==
    LET l == SynonymsLoop(text, FALSE, r, 1)
    IN  IF ~l.changed
        THEN IF text = <<>> THEN Raise(l.rng)
             ELSE Ret(TxtPlease \o LowerFirst(text), l.rng)
        ELSE IF Unchanged(text, l.text)
             THEN IF text = <<>> THEN Raise(l.rng)
                  ELSE Ret(TxtPlease \o LowerFirst(text), l.rng)
             ELSE Ret(l.text, l.rng)

\* re.match(r"^(\\w+)(.*)$", text.strip()): the pattern, a raw string, is a
\* literal backslash followed by one or more letters w, then the rest.
\* The number of characters of group 1, or 0 when there is no match.
RECURSIVE CountW(_, _)
CountW(s, i) == IF i <= Len(s) /\ s[i] = "w" THEN 1 + CountW(s, i + 1) ELSE 0

PassiveVerbLen(s) ==
    IF Len(s) >= 2 /\ s[1] = "\\" /\ s[2] = "w" /\ (\A i \in 1..Len(s) : s[i] # "\n")
    THEN 1 + CountW(s, 2)
    ELSE 0

PassiveVoice(text, r) ==
    LET s    == Strip(text)
        n    == PassiveVerbLen(s)
        verb == SubSeq(s, 1, n)
        rest == Strip(From(s, n + 1))
    IN  IF n = 0 THEN Ret(text \o TxtShouldBeDone, r)
        ELSE IF rest = <<>> THEN Ret(text \o TxtShouldBePerformed, r)
        ELSE Ret(rest \o TxtShouldBe \o Lower(verb) \o TxtEd, r)

\* re.search(r"\b(into|in|on|inside)\b\s+([^,]+)", text, re.IGNORECASE).
\* The length of the whitespace run that starts at position p.
RECURSIVE SpaceRun(_, _)
SpaceRun(s, p) == IF p <= Len(s) /\ s[p] \in Whitespace THEN 1 + SpaceRun(s, p + 1) ELSE 0

\* The last position of the run of non-comma characters that starts at q.
RECURSIVE NoCommaEnd(_, _)
NoCommaEnd(s, q) == IF q + 1 <= Len(s) /\ s[q + 1] # "," THEN NoCommaEnd(s, q + 1) ELSE q

\* The match of alternative `prep` at position i: [found, g1, g2, g0].
\* \s+ is greedy and gives one character back when [^,]+ would be empty.
SpatialMatchAt(s, prep, i) ==
    LET p  == i + Len(prep)
        w  == SpaceRun(s, p)
        q0 == p + w
        q  == IF q0 <= Len(s) /\ s[q0] # "," THEN q0
              ELSE IF w >= 2 THEN q0 - 1 ELSE 0
        e  == NoCommaEnd(s, q)
    IN  IF WordMatchAt(s, prep, i) /\ w >= 1 /\ q > 0
        THEN [found |-> TRUE, g1 |-> SubSeq(s, i, p - 1), g2 |-> SubSeq(s, q, e),
              g0 |-> SubSeq(s, i, e)]
        ELSE [found |-> FALSE, g1 |-> <<>>, g2 |-> <<>>, g0 |-> <<>>]

\* The least element of a non-empty set of numbers.
Least(S) == CHOOSE x \in S : \A y \in S : x <= y

\* The alternatives that match at position i.
SpatialAlternativesAt(s, i) ==
    {a \in DOMAIN SpatialPrepositions : SpatialMatchAt(s, SpatialPrepositions[a], i).found}

\* The match at position i: that of the first alternative to match there.
SpatialFirstAt(s, i) ==
    SpatialMatchAt(s, SpatialPrepositions[Least(SpatialAlternativesAt(s, i))], i)

\* The positions where some alternative matches.
SpatialPositions(s) == {i \in 1..Len(s) : SpatialAlternativesAt(s, i) # {}}

\* The leftmost match, and at one position the first alternative to match.
SpatialSearch(s) ==
    IF SpatialPositions(s) = {}
    THEN [found |-> FALSE, g1 |-> <<>>, g2 |-> <<>>, g0 |-> <<>>]
    ELSE SpatialFirstAt(s, Least(SpatialPositions(s)))

SpatialReordering(text, r) ==
    LET m == SpatialSearch(text)
    IN  IF m.found
        THEN LET phrase  == m.g1 \o <<" ">> \o Strip(m.g2)
                 rest    == Strip(SubPlain(text, m.g0, <<>>))
                 mutated == Capitalize(phrase) \o TxtCommaSpace \o rest
             IN  IF Unchanged(text, mutated) THEN Ret(text, r) ELSE Ret(mutated, r)
        ELSE LET a == ReplaceAny(text, SpatialReplacements, r)
             IN  IF Unchanged(text, a.text) THEN Ret(text \o TxtLeftSide, a.rng) ELSE a

FormalInformal(text, r) ==
    LET a == ReplaceAny(text, FormalReplacements, r)
    IN  IF Unchanged(text, a.text)
        THEN IF text = <<>> THEN Raise(a.rng)
             ELSE LET c == Choice(a.rng, << TxtPlease \o LowerFirst(text),
                                            TxtHey \o LowerFirst(text) >>)
                  IN  Ret(c.value, c.rng)
        ELSE a

\* The loop of _verb_phrasing from the k-th key on.
RECURSIVE VerbPhrasingFrom(_, _, _)
VerbPhrasingFrom(text, r, k) ==
    IF k > Len(VerbReplacements)
    THEN IF text = <<>> THEN Raise(r) ELSE Ret(TxtGoAhead \o LowerFirst(text), r)
    ELSE IF Contains(Lower(text), VerbReplacements[k].key)
         THEN LET c       == Choice(r, VerbReplacements[k].choices)
                  mutated == SubPlain(text, VerbReplacements[k].key, c.value)
              IN  IF Unchanged(text, mutated) THEN Ret(text, c.rng) ELSE Ret(mutated, c.rng)
         ELSE VerbPhrasingFrom(text, r, k + 1)

VerbPhrasing(text, r) == VerbPhrasingFrom(text, r, 1)

ObjectDescriptors(text, r) ==
    LET a == ReplaceAny(text, ObjectReplacements, r)
    IN  IF Unchanged(text, a.text) THEN Ret(text \o TxtItemInView, a.rng) ELSE a

DirectionalLanguage(text, r) ==
    LET a == ReplaceAny(text, DirectionReplacements, r)
    IN  IF Unchanged(text, a.text) THEN Ret(text \o TxtTowardTarget, a.rng) ELSE a

TemporalModifiers(text, r) ==
    IF Contains(Lower(text), TxtNow)
    THEN LET c == Choice(r, TemporalChoices)
         IN  Ret(SubWord(text, TxtNow, c.value), c.rng)
    ELSE Ret(text \o TxtRightAwaySuffix, r)

NegationPositive(text, r) ==
    IF Contains(Lower(text), TxtDont) \/ Contains(Lower(text), TxtDoNot)
    THEN Ret(Replace(Replace(text, TxtDont, TxtAvoid), TxtDoNot, TxtAvoid), r)
    ELSE LET c == Choice(r, NegationLeads)
         IN  IF text = <<>> THEN Raise(c.rng)
             ELSE Ret(c.value \o <<" ">> \o LowerFirst(text), c.rng)

ComplexityVariation(text, r) ==
    IF Contains(Lower(text), TxtCarefully)
    THEN Ret(Strip(SubWord(text, TxtCarefully, <<>>)), r)
    ELSE IF text = <<>> THEN Raise(r)
         ELSE Ret(TxtCarefullyPrefix \o LowerFirst(text), r)

MUTATION_CATEGORIES ==
    << "synonyms", "passive_voice", "spatial_reordering", "formal_informal",
       "verb_phrasing", "object_descriptors", "directional_language",
       "temporal_modifiers", "negation_positive", "complexity_variation" >>

\* _MUTATORS[category](text, rng), for a category of the table.
Mutator(category, text, r) ==
    CASE category = "synonyms"             -> Synonyms(text, r)
      [] category = "passive_voice"        -> PassiveVoice(text, r)
      [] category = "spatial_reordering"   -> SpatialReordering(text, r)
      [] category = "formal_informal"      -> FormalInformal(text, r)
      [] category = "verb_phrasing"        -> VerbPhrasing(text, r)
      [] category = "object_descriptors"   -> ObjectDescriptors(text, r)
      [] category = "directional_language" -> DirectionalLanguage(text, r)
      [] category = "temporal_modifiers"   -> TemporalModifiers(text, r)
      [] category = "negation_positive"    -> NegationPositive(text, r)
      [] category = "complexity_variation" -> ComplexityVariation(text, r)

\* Lines 188-191: what the mutator returned, stripped; the instruction
\* itself when nothing is left of it.
StrippedOrInstruction(instruction, m) ==
    IF m.raised THEN m
    ELSE IF Strip(m.text) # <<>> THEN Ret(Strip(m.text), m.rng)
    ELSE Ret(instruction, m.rng)

\* A faulty variant of generate_mutation: a category that is not defined
\* is an error (_MUTATORS[category] for _MUTATORS.get(category)).
generate_mutation_strict(instruction, category, seed) ==
    IF category \notin Range(MUTATION_CATEGORIES) THEN Raise(NewRandom(seed))
    ELSE StrippedOrInstruction(instruction, Mutator(category, instruction, NewRandom(seed)))

\* generate_mutation(instruction, category, seed): [text, rng, raised].
generate_mutation(instruction, category, seed) ==
    IF category \notin Range(MUTATION_CATEGORIES) THEN Ret(instruction, NewRandom(seed))
    ELSE StrippedOrInstruction(instruction, Mutator(category, instruction, NewRandom(seed)))

(***************************************************************************)
(* The result ledger: src/experiment_utils.py, append_csv.                 *)
(* A file is [exists, lines]; a line is the sequence of its fields.        *)
(***************************************************************************)
DEFAULT_FIELDS ==
    << "trial_id", "task", "mutation_category", "original_instruction",
       "mutated_instruction", "success", "distance_to_target", "episode_length",
       "timestamp", "seed", "notes" >>

NoFile == [exists |-> FALSE, lines |-> <<>>]

\* csv.DictWriter.writerow: the row's values in the order of fieldnames.
CsvLine(fieldnames, row) == [i \in 1..Len(fieldnames) |-> row[fieldnames[i]]]

\* A faulty variant of append_csv: the header is written on every call.
append_csv_header_always(file, fieldnames, row) ==
    [exists |-> TRUE,
     lines  |-> file.lines \o <<fieldnames>> \o <<[i \in 1..Len(fieldnames) |-> row[fieldnames[i]]]>>]

\* append_csv(path, fieldnames, row) on the file at `path`: the header is
\* written only when the path did not exist before the file was opened.
append_csv(file, fieldnames, row) ==
    [exists |-> TRUE,
     lines  |-> (IF ~file.exists THEN file.lines \o <<fieldnames>> ELSE file.lines)
                \o <<CsvLine(fieldnames, row)>>]

(***************************************************************************)
(* Configuration: src/run_octo_robustness.py, _to_run_config.              *)
(* Action scales and success rates are written in hundredths (0.25 is 25); *)
(* a measured rate is the fraction [num, den].                             *)
(***************************************************************************)
\* The absent distance_to_target (Python's None).
None == "None"

\* cfg.get(key, default)
Get(c, key, default) == IF key \in DOMAIN c THEN c[key] ELSE default

\* cfg["policy"], cfg["policy_setup"] and cfg["tasks"] raise KeyError when absent.
RequiredKeys == {"policy", "policy_setup", "tasks"}

LoadRaises(c) == ~(RequiredKeys \subseteq DOMAIN c)

\* _to_run_config(cfg), for a cfg that holds the required keys.
_to_run_config(c) ==
    [policy                |-> c["policy"],
     policy_setup          |-> c["policy_setup"],
     tasks                 |-> c["tasks"],
     camera                |-> Get(c, "camera", "3rd_view_camera"),
     max_steps             |-> Get(c, "max_steps", 120),
     action_scale          |-> Get(c, "action_scale", 100),
     heuristic_grasp_steps |-> Get(c, "heuristic_grasp_steps", 0),
     baseline_min_sr       |-> Get(c, "baseline_min_sr", 90),
     seeds                 |-> Get(c, "seeds", <<0, 1, 2, 3, 4, 5, 6, 7, 8, 9>>),
     calibration_scales    |-> Get(c, "calibration_scales", <<25, 50, 75, 100>>),
     calibration_episodes  |-> Get(c, "calibration_episodes", 5),
     results_path          |-> Get(c, "results_path", "data/results/results.csv"),
     log_path              |-> Get(c, "log_path", "data/logs/experiment.log"),
     locked_config_path    |-> Get(c, "locked_config_path", "data/logs/locked_config.json")]

\* max(1, n)
Max1(n) == IF n > 1 THEN n ELSE 1

\* successes / max(1, total)
Rate(successes, total) == [num |-> successes, den |-> Max1(total)]

\* a < b for two rates
RateLess(a, b) == a.num * b.den < b.num * a.den

\* A configured rate, in hundredths, as a fraction.
Hundredths(x) == [num |-> x, den |-> 100]

(***************************************************************************)
(* The simulator's default instruction of a task                           *)
(* (env.get_language_instruction()).                                       *)
(***************************************************************************)
TaskUniverse == << "google_robot_pick_coke_can", "widowx_carrot_on_plate",
                   "google_robot_move_near" >>

LanguageInstruction(task) ==
    CASE task = "google_robot_pick_coke_can" -> <<"p","i","c","k"," ","c","o","k","e"," ","c","a","n">>
      [] task = "widowx_carrot_on_plate" ->
             <<"p","u","t"," ","c","a","r","r","o","t"," ","o","n"," ","p","l","a","t","e">>
      [] task = "google_robot_move_near" ->
             <<"m","o","v","e"," ","c","a","n"," ","n","e","a","r"," ","a","p","p","l","e">>

\* A faulty variant of DistanceNote: the absent distance leaves no note.
DistanceNoteSilent(distance) == ""

(***************************************************************************)
(* What _run_episode returns (lines 157-166): when the loop ended at a     *)
(* step that reported termination or truncation, success and distance are  *)
(* the ones read from info; when max_steps steps passed, they keep their   *)
(* initial values.  The note is set from the distance.                     *)
(***************************************************************************)
DistanceNote(distance) ==
    IF distance = None THEN "distance_to_target unavailable" ELSE ""

EpisodeResult(success, distance, steps) ==
    [success |-> success, distance_to_target |-> distance,
     episode_length |-> steps, notes |-> DistanceNote(distance)]

\* The loop ran max_steps steps with no termination and no truncation.
Exhausted(config) == EpisodeResult(FALSE, None, config.max_steps)

\* The loop ended at its first step; info may hold a distance.
EndedResults == {EpisodeResult(s, d, 1) : s \in BOOLEAN, d \in {None, "0.05"}}

\* The position of the loops of run_baseline (for task: for seed:) at entry,
\* and after the body has run at (t, s).  t > Len(tasks) means the loops are over.
BaselineFirst(config) ==
    IF Len(config.tasks) = 0 \/ Len(config.seeds) = 0
    THEN [t |-> Len(config.tasks) + 1, s |-> 1]
    ELSE [t |-> 1, s |-> 1]

\* A faulty variant of BaselineAdvance: the loops nested the other way round.
BaselineAdvanceSeedMajor(config, t, s) ==
    IF t < Len(config.tasks) THEN [t |-> t + 1, s |-> s]
    ELSE IF s < Len(config.seeds) THEN [t |-> 1, s |-> s + 1]
    ELSE [t |-> t + 1, s |-> 1]

BaselineAdvance(config, t, s) ==
    IF s < Len(config.seeds) THEN [t |-> t, s |-> s + 1] ELSE [t |-> t + 1, s |-> 1]

\* The same for run_mutations (for task: for category: for seed:).
MutationsFirst(config) ==
    IF Len(config.tasks) = 0 \/ Len(config.seeds) = 0
    THEN [t |-> Len(config.tasks) + 1, c |-> 1, s |-> 1]
    ELSE [t |-> 1, c |-> 1, s |-> 1]

\* A faulty variant of MutationsAdvance: category innermost, seed in the middle.
MutationsAdvanceSeedMajor(config, t, c, s) ==
    IF c < Len(MUTATION_CATEGORIES) THEN [t |-> t, c |-> c + 1, s |-> s]
    ELSE IF s < Len(config.seeds) THEN [t |-> t, c |-> 1, s |-> s + 1]
    ELSE [t |-> t + 1, c |-> 1, s |-> 1]

MutationsAdvance(config, t, c, s) ==
    IF s < Len(config.seeds) THEN [t |-> t, c |-> c, s |-> s + 1]
    ELSE IF c < Len(MUTATION_CATEGORIES) THEN [t |-> t, c |-> c + 1, s |-> 1]
    ELSE [t |-> t + 1, c |-> 1, s |-> 1]

\* now_iso(): the wall clock is not modelled; every row carries this mark.
now_iso == "utcnow"

\* The row run_baseline builds for a trial (lines 202-214).
BaselineRow(trial_id, task, instruction, seed, result) ==
    [trial_id |-> trial_id, task |-> task, mutation_category |-> "baseline",
     original_instruction |-> instruction, mutated_instruction |-> instruction,
     success |-> result.success, distance_to_target |-> result.distance_to_target,
     episode_length |-> result.episode_length, timestamp |-> now_iso,
     seed |-> seed, notes |-> result.notes]

\* The row run_mutations builds for a trial (lines 234-246).
MutationRow(trial_id, task, category, original, mutated, seed, result) ==
    [trial_id |-> trial_id, task |-> task, mutation_category |-> category,
     original_instruction |-> original, mutated_instruction |-> mutated,
     success |-> result.success, distance_to_target |-> result.distance_to_target,
     episode_length |-> result.episode_length, timestamp |-> now_iso,
     seed |-> seed, notes |-> result.notes]

\* The resolved RunConfig of this invocation.
Config == _to_run_config(cfg)

Phases == {"align", "baseline", "mutations", "all"}

\* baseline_sr before run_baseline has returned.
NoRate == [num |-> 0 - 1, den |-> 1]

NoCal == [k |-> 0, i |-> 0, successes |-> 0, best_scale |-> 0, best_sr |-> NoRate]

NoBaseline == [t |-> 0, s |-> 0, total |-> 0, successes |-> 0, trial_id |-> 0]

NoMutations == [t |-> 0, c |-> 0, s |-> 0, trial_id |-> 0]

\* The locals of each controller at its entry.
CalEntry(config) ==
    [k |-> 1, i |-> 0, successes |-> 0, best_scale |-> config.action_scale,
     best_sr |-> NoRate]

BaselineEntry(config) ==
    [t |-> BaselineFirst(config).t, s |-> BaselineFirst(config).s,
     total |-> 0, successes |-> 0, trial_id |-> 0]

MutationsEntry(config) ==
    [t |-> MutationsFirst(config).t, c |-> MutationsFirst(config).c,
     s |-> MutationsFirst(config).s, trial_id |-> 0]

(***************************************************************************)
(* The configurations explored.  MaxTasks and MaxSeeds bound the lists.    *)
(***************************************************************************)
MaxTasks == 2

MaxSeeds == 2

TaskLists == {SubSeq(TaskUniverse, 1, n) : n \in 0..MaxTasks}

SeedLists == {[i \in 1..n |-> i - 1] : n \in 0..MaxSeeds}

\* The lists every configuration holds.
GridConfigs ==
    {[policy |-> "octo-base", policy_setup |-> "google_robot", tasks |-> t, seeds |-> s]
     : t \in TaskLists, s \in SeedLists}

\* The same with an action_scale of 0.75; without the key it is 1.0.
ScaledConfigs == {("action_scale" :> 75) @@ g : g \in GridConfigs}

\* Configurations that lack one of the required keys.
BrokenConfigs ==
    {[key \in RequiredKeys \ {k} |-> IF key = "tasks" THEN <<TaskUniverse[1]>> ELSE "octo-base"]
     : k \in RequiredKeys}

\* baseline_min_sr as configured; without the key it is 0.9.
MinRates == {50, 110}

\* What an align or all run reads besides: the calibration candidates and
\* the gate.  A standalone baseline or mutations run reads neither.
AlignConfigs ==
    LET cals == {("calibration_scales" :> <<50, 25>>) @@ ("calibration_episodes" :> 1) @@ g
                 : g \in GridConfigs}
    IN  cals \cup {("baseline_min_sr" :> m) @@ c : m \in MinRates, c \in cals}

ConfigsFor(p) ==
    BrokenConfigs \cup (IF p \in {"align", "all"} THEN AlignConfigs
                        ELSE GridConfigs \cup ScaledConfigs)

\* What _run_episode may return.  At most one baseline or sweep episode of
\* a run ends before max_steps; the others exhaust their steps.
Outcomes == {Exhausted(Config)} \cup (IF earlyLeft = 0 THEN {} ELSE EndedResults)

(***************************************************************************)
(* main(), src/run_octo_robustness.py lines 251-285.                       *)
(***************************************************************************)
RunStart(early) ==
    /\ action_scale = 0
    /\ baseline_sr = NoRate
    /\ cal = NoCal
    /\ bl = NoBaseline
    /\ mu = NoMutations
    /\ running = <<>>
    /\ locked = <<>>
    /\ earlyLeft = early
    /\ calRates = <<>>
    /\ envs = {}
    /\ models = {}
    /\ raised = <<>>
    /\ lockWrites = 0

\* In the runs explored at most one baseline or sweep episode ends early.
RunIdle == RunStart(1)

\* No Random object has been made yet.
NoRandom == [seed |-> 0, pos |-> 0]

MutIdle ==
    /\ mcall = <<>>
    /\ mresult = <<>>
    /\ rng = NoRandom
    /\ probe = <<>>

Init ==
    /\ phase \in Phases
    /\ cfg \in ConfigsFor(phase)
    /\ pc = "load"
    /\ RunIdle
    /\ ledger = NoFile
    /\ appended = <<>>
    /\ invocation = 1
    /\ episode = <<>>
    /\ MutIdle

\* A faulty variant of Aligns: the baseline phase aligns too.
AlignsOrBaseline(p) == p \in {"align", "baseline", "all"}

\* Line 266: args.phase in ["align", "all"]
Aligns(p) == p \in {"align", "all"}

\* Lines 261-267 and 282-285: load the configuration and enter the first
\* controller of the phase.
Load ==
    /\ pc = "load"
    /\ IF LoadRaises(cfg)
       THEN /\ pc' = "crashed"
            /\ UNCHANGED << action_scale, cal, bl, mu >>
       ELSE /\ action_scale' = Config.action_scale
            /\ IF Aligns(phase)
               THEN IF Config.tasks = <<>>
                    THEN /\ pc' = "crashed"
                         /\ UNCHANGED << cal, bl, mu >>
                    ELSE /\ pc' = "calibrate"
                         /\ cal' = CalEntry(Config)
                         /\ UNCHANGED << bl, mu >>
               ELSE IF phase = "baseline"
                    THEN /\ pc' = "baseline"
                         /\ bl' = BaselineEntry(Config)
                         /\ UNCHANGED << cal, mu >>
                    ELSE /\ pc' = "mutations"
                         /\ mu' = MutationsEntry(Config)
                         /\ UNCHANGED << cal, bl >>
    /\ UNCHANGED << phase, cfg, baseline_sr, running, ledger, locked, earlyLeft,
                    calRates, appended, invocation >>
    /\ UNCHANGED mutVars
    /\ UNCHANGED episode
    /\ UNCHANGED simVars

(***************************************************************************)
(* calibrate_action_scale(config.tasks[0], config, logger), lines 169-189. *)
(***************************************************************************)
\* A faulty variant of CalEpisodeStart: past the end of the seed list the
\* last seed is used again, with no wraparound.
CalEpisodeStartNoWrap ==
    /\ pc = "calibrate"
    /\ running = <<>>
    /\ cal.k <= Len(Config.calibration_scales)
    /\ cal.i < Config.calibration_episodes
    /\ IF Len(Config.seeds) = 0
       THEN /\ pc' = "crashed"
            /\ UNCHANGED running
       ELSE /\ running' = << [task |-> Config.tasks[1],
                              instruction |-> LanguageInstruction(Config.tasks[1]),
                              seed |-> Config.seeds[IF cal.i < Len(Config.seeds) THEN cal.i + 1 ELSE Len(Config.seeds)],
                              scale |-> Config.calibration_scales[cal.k]] >>
            /\ UNCHANGED pc
    /\ UNCHANGED << phase, cfg, action_scale, baseline_sr, cal, bl, mu, ledger, locked,
                    earlyLeft, calRates, appended, invocation >>
    /\ UNCHANGED mutVars
    /\ UNCHANGED episode
    /\ IF Len(Config.seeds) = 0
       THEN UNCHANGED << envs, models >>
       ELSE /\ envs' = {"calibrate_action_scale", "_run_episode"}
            /\ models' = {"_run_episode"}
    /\ UNCHANGED << raised, lockWrites >>

CalEpisodeStart ==
    /\ pc = "calibrate"
    /\ running = <<>>
    /\ cal.k <= Len(Config.calibration_scales)
    /\ cal.i < Config.calibration_episodes
    /\ IF Len(Config.seeds) = 0
       THEN /\ pc' = "crashed"
            /\ UNCHANGED running
       ELSE /\ running' = << [task |-> Config.tasks[1],
                              instruction |-> LanguageInstruction(Config.tasks[1]),
                              seed |-> Config.seeds[(cal.i % Len(Config.seeds)) + 1],
                              scale |-> Config.calibration_scales[cal.k]] >>
            /\ UNCHANGED pc
    /\ UNCHANGED << phase, cfg, action_scale, baseline_sr, cal, bl, mu, ledger, locked,
                    earlyLeft, calRates, appended, invocation >>
    /\ UNCHANGED mutVars
    /\ UNCHANGED episode
    /\ IF Len(Config.seeds) = 0
       THEN UNCHANGED << envs, models >>
       ELSE /\ envs' = {"calibrate_action_scale", "_run_episode"}
            /\ models' = {"_run_episode"}
    /\ UNCHANGED << raised, lockWrites >>

CalEpisodeEnd ==
    /\ pc = "calibrate"
    /\ running # <<>>
    /\ \E result \in {Exhausted(Config)} \cup EndedResults :
         cal' = [cal EXCEPT !.i = @ + 1,
                            !.successes = @ + (IF result.success THEN 1 ELSE 0)]
    /\ running' = <<>>
    /\ UNCHANGED << phase, cfg, pc, action_scale, baseline_sr, bl, mu, ledger, locked,
                    earlyLeft, calRates, appended, invocation >>
    /\ UNCHANGED mutVars
    /\ UNCHANGED episode
    /\ envs' = envs \ {"_run_episode"}
    /\ models' = {}
    /\ UNCHANGED << raised, lockWrites >>

\* A faulty variant of BetterRate: `>=` for `>`, so a tie moves to the later candidate.
BetterOrEqualRate(sr, best_sr) == ~RateLess(sr, best_sr)

\* Lines 183-187: the candidate's rate, and the best one seen so far.
BetterRate(sr, best_sr) == RateLess(best_sr, sr)

CalScaleDone ==
    /\ pc = "calibrate"
    /\ running = <<>>
    /\ cal.k <= Len(Config.calibration_scales)
    /\ cal.i >= Config.calibration_episodes
    /\ LET sr == Rate(cal.successes, Config.calibration_episodes)
       IN  /\ cal' = [k |-> cal.k + 1, i |-> 0, successes |-> 0,
                      best_scale |-> IF BetterRate(sr, cal.best_sr)
                                     THEN Config.calibration_scales[cal.k]
                                     ELSE cal.best_scale,
                      best_sr |-> IF BetterRate(sr, cal.best_sr) THEN sr ELSE cal.best_sr]
           /\ calRates' = Append(calRates, sr)
    /\ UNCHANGED << phase, cfg, pc, action_scale, baseline_sr, bl, mu, running, ledger,
                    locked, earlyLeft, appended, invocation >>
    /\ UNCHANGED mutVars
    /\ UNCHANGED episode
    /\ UNCHANGED simVars

\* Line 189 and line 267-268: the scale returned becomes main's action_scale
\* and run_baseline is entered.
CalReturn ==
    /\ pc = "calibrate"
    /\ running = <<>>
    /\ cal.k > Len(Config.calibration_scales)
    /\ action_scale' = cal.best_scale
    /\ pc' = "baseline"
    /\ bl' = BaselineEntry(Config)
    /\ UNCHANGED << phase, cfg, baseline_sr, cal, mu, running, ledger, locked,
                    earlyLeft, calRates, appended, invocation >>
    /\ UNCHANGED mutVars
    /\ UNCHANGED episode
    /\ envs' = {}
    /\ UNCHANGED << models, raised, lockWrites >>

(***************************************************************************)
(* run_baseline(config, action_scale, logger), lines 192-221.              *)
(***************************************************************************)
\* Lines 198-201: make the simulator, read the instruction, enter _run_episode.
BaselineTrialStart ==
    /\ pc = "baseline"
    /\ running = <<>>
    /\ bl.t <= Len(Config.tasks)
    /\ LET task == Config.tasks[bl.t]
       IN  running' = << [task |-> task, instruction |-> LanguageInstruction(task),
                          seed |-> Config.seeds[bl.s], scale |-> action_scale] >>
    /\ UNCHANGED << phase, cfg, pc, action_scale, baseline_sr, cal, bl, mu, ledger, locked,
                    earlyLeft, calRates, appended, invocation >>
    /\ UNCHANGED mutVars
    /\ UNCHANGED episode
    /\ envs' = {"run_baseline", "_run_episode"}
    /\ models' = {"_run_episode"}
    /\ UNCHANGED << raised, lockWrites >>

\* Lines 201-218: the episode returns, its row is appended, the counters move.
BaselineTrialEnd ==
    /\ pc = "baseline"
    /\ running # <<>>
    /\ \E result \in Outcomes :
         LET e   == running[1]
             row == BaselineRow(bl.trial_id, e.task, e.instruction, e.seed, result)
         IN  /\ ledger' = append_csv(ledger, DEFAULT_FIELDS, row)
             /\ bl' = [t |-> BaselineAdvance(Config, bl.t, bl.s).t,
                       s |-> BaselineAdvance(Config, bl.t, bl.s).s,
                       total |-> bl.total + 1,
                       successes |-> bl.successes + (IF result.success THEN 1 ELSE 0),
                       trial_id |-> bl.trial_id + 1]
             /\ earlyLeft' = (IF result # Exhausted(Config) THEN earlyLeft - 1 ELSE earlyLeft)
    /\ running' = <<>>
    /\ UNCHANGED << phase, cfg, pc, action_scale, baseline_sr, cal, mu, locked, calRates,
                    appended, invocation >>
    /\ UNCHANGED mutVars
    /\ UNCHANGED episode
    /\ envs' = envs \ {"_run_episode"}
    /\ models' = {}
    /\ UNCHANGED << raised, lockWrites >>

\* A faulty variant of BaselineRate: the division left unguarded.
BaselineRateUnguarded(successes, total) == [num |-> successes, den |-> total]

\* Lines 219-221: the rate run_baseline returns.
BaselineRate(successes, total) == Rate(successes, total)

\* The return: to line 268 (align, all) or to the end of main (baseline).
BaselineReturn ==
    /\ pc = "baseline"
    /\ running = <<>>
    /\ bl.t > Len(Config.tasks)
    /\ IF phase = "baseline"
       THEN /\ pc' = "done"
            /\ UNCHANGED baseline_sr
       ELSE /\ pc' = "lock"
            /\ baseline_sr' = BaselineRate(bl.successes, bl.total)
    /\ UNCHANGED << phase, cfg, action_scale, cal, bl, mu, running, ledger, locked,
                    earlyLeft, calRates, appended, invocation >>
    /\ UNCHANGED mutVars
    /\ UNCHANGED episode
    /\ envs' = {}
    /\ UNCHANGED << models, raised, lockWrites >>

\* A faulty variant of LockedContent: the configured action_scale is kept.
LockedContentConfigured(c, scale, sr) ==
    [key \in DOMAIN c \cup {"action_scale", "baseline_sr"} |->
       IF key = "action_scale" THEN Get(c, "action_scale", 100)
       ELSE IF key = "baseline_sr" THEN sr
       ELSE c[key]]

\* Lines 269-271: the dict written to the locked-config file.
LockedContent(c, scale, sr) ==
    [key \in DOMAIN c \cup {"action_scale", "baseline_sr"} |->
       IF key = "action_scale" THEN scale
       ELSE IF key = "baseline_sr" THEN sr
       ELSE c[key]]

\* A faulty variant of WriteLocked: main goes on to the gate without
\* writing the file.
WriteLockedSkipped ==
    /\ pc = "lock"
    /\ pc' = "gate"
    /\ UNCHANGED << phase, cfg, action_scale, baseline_sr, cal, bl, mu, running, ledger,
                    locked, earlyLeft, calRates, appended, invocation >>
    /\ UNCHANGED mutVars
    /\ UNCHANGED episode
    /\ UNCHANGED simVars

\* Lines 269-273.
WriteLocked ==
    /\ pc = "lock"
    /\ locked' = << LockedContent(cfg, action_scale, baseline_sr) >>
    /\ pc' = "gate"
    /\ UNCHANGED << phase, cfg, action_scale, baseline_sr, cal, bl, mu, running, ledger,
                    earlyLeft, calRates, appended, invocation >>
    /\ UNCHANGED mutVars
    /\ UNCHANGED episode
    /\ lockWrites' = lockWrites + 1
    /\ UNCHANGED << envs, models, raised >>

\* A faulty variant of GateFails: the comparison turned round.
GateFailsAbove(sr, min_sr) == RateLess(Hundredths(min_sr), sr)

\* Line 274: baseline_sr < config.baseline_min_sr
GateFails(sr, min_sr) == RateLess(sr, Hundredths(min_sr))

\* Lines 274-285: stop at a failed gate; otherwise `all` goes on to the sweep.
Gate ==
    /\ pc = "gate"
    /\ IF GateFails(baseline_sr, Config.baseline_min_sr)
       THEN /\ pc' = "done"
            /\ UNCHANGED mu
       ELSE IF phase = "all"
            THEN /\ pc' = "mutations"
                 /\ mu' = MutationsEntry(Config)
            ELSE /\ pc' = "done"
                 /\ UNCHANGED mu
    /\ UNCHANGED << phase, cfg, action_scale, baseline_sr, cal, bl, running, ledger, locked,
                    earlyLeft, calRates, appended, invocation >>
    /\ UNCHANGED mutVars
    /\ UNCHANGED episode
    /\ UNCHANGED simVars

(***************************************************************************)
(* run_mutations(config, action_scale, logger), lines 224-248.             *)
(***************************************************************************)
\* A faulty variant of EnterSweepEpisode: the episode gets the action
\* scale of the configuration, not main's.
EnterSweepEpisodeConfigured(task, category, seed, original, m) ==
    IF m.raised
    THEN /\ pc' = "crashed"
         /\ envs' = {}
         /\ UNCHANGED << running, models >>
    ELSE /\ running' = << [task |-> task, category |-> category,
                           original |-> original, instruction |-> m.text,
                           seed |-> seed, scale |-> Config.action_scale] >>
         /\ envs' = {"run_mutations", "_run_episode"}
         /\ models' = {"_run_episode"}
         /\ UNCHANGED pc

\* Line 233: _run_episode is entered with what generate_mutation returned,
\* unless it raised.
EnterSweepEpisode(task, category, seed, original, m) ==
    IF m.raised
    THEN /\ pc' = "crashed"
         /\ envs' = {}
         /\ UNCHANGED << running, models >>
    ELSE /\ running' = << [task |-> task, category |-> category,
                           original |-> original, instruction |-> m.text,
                           seed |-> seed, scale |-> action_scale] >>
         /\ envs' = {"run_mutations", "_run_episode"}
         /\ models' = {"_run_episode"}
         /\ UNCHANGED pc

\* Lines 229-233: make the simulator, mutate the instruction, enter _run_episode.
MutationTrialStart ==
    /\ pc = "mutations"
    /\ running = <<>>
    /\ mu.t <= Len(Config.tasks)
    /\ EnterSweepEpisode(Config.tasks[mu.t], MUTATION_CATEGORIES[mu.c], Config.seeds[mu.s],
                         LanguageInstruction(Config.tasks[mu.t]),
                         generate_mutation(LanguageInstruction(Config.tasks[mu.t]),
                                           MUTATION_CATEGORIES[mu.c], Config.seeds[mu.s]))
    /\ UNCHANGED << phase, cfg, action_scale, baseline_sr, cal, bl, mu, ledger, locked,
                    earlyLeft, calRates, appended, invocation >>
    /\ UNCHANGED mutVars
    /\ UNCHANGED episode
    /\ UNCHANGED << raised, lockWrites >>

\* Lines 233-248: the episode returns, its row is appended, trial_id moves.
MutationTrialEnd ==
    /\ pc = "mutations"
    /\ running # <<>>
    /\ \E result \in Outcomes :
         LET e   == running[1]
             row == MutationRow(mu.trial_id, e.task, e.category, e.original,
                                e.instruction, e.seed, result)
         IN  /\ ledger' = append_csv(ledger, DEFAULT_FIELDS, row)
             /\ mu' = [t |-> MutationsAdvance(Config, mu.t, mu.c, mu.s).t,
                       c |-> MutationsAdvance(Config, mu.t, mu.c, mu.s).c,
                       s |-> MutationsAdvance(Config, mu.t, mu.c, mu.s).s,
                       trial_id |-> mu.trial_id + 1]
             /\ earlyLeft' = (IF result # Exhausted(Config) THEN earlyLeft - 1 ELSE earlyLeft)
    /\ running' = <<>>
    /\ UNCHANGED << phase, cfg, pc, action_scale, baseline_sr, cal, bl, locked, calRates,
                    appended, invocation >>
    /\ UNCHANGED mutVars
    /\ UNCHANGED episode
    /\ envs' = envs \ {"_run_episode"}
    /\ models' = {}
    /\ UNCHANGED << raised, lockWrites >>

MutationsReturn ==
    /\ pc = "mutations"
    /\ running = <<>>
    /\ mu.t > Len(Config.tasks)
    /\ pc' = "done"
    /\ UNCHANGED << phase, cfg, action_scale, baseline_sr, cal, bl, mu, running, ledger,
                    locked, earlyLeft, calRates, appended, invocation >>
    /\ UNCHANGED mutVars
    /\ UNCHANGED episode
    /\ envs' = {}
    /\ UNCHANGED << models, raised, lockWrites >>

(***************************************************************************)
(* _run_episode, lines 120-155: the simulator (make, reset, step) or the   *)
(* policy (its constructor, reset, step) raises.  Neither _run_episode nor *)
(* a controller nor main has a try statement.                              *)
(***************************************************************************)
\* A faulty variant of Uncaught: the controller catches the exception and
\* goes on.
CaughtByController(where) == where

\* Where the run is once an exception has left the frame `where`.
Uncaught(where) == "crashed"

EpisodeRaises ==
    /\ pc \in {"calibrate", "baseline", "mutations"}
    /\ running # <<>>
    /\ raised' = << [in |-> pc, episode |-> running[1]] >>
    /\ pc' = Uncaught(pc)
    /\ running' = <<>>
    /\ envs' = {}
    /\ models' = {}
    /\ UNCHANGED << phase, cfg, action_scale, baseline_sr, cal, bl, mu, ledger, locked,
                    earlyLeft, calRates, appended, invocation, lockWrites >>
    /\ UNCHANGED mutVars
    /\ UNCHANGED episode

Next ==
    \/ Load
    \/ CalEpisodeStart
    \/ CalEpisodeEnd
    \/ CalScaleDone
    \/ CalReturn
    \/ BaselineTrialStart
    \/ BaselineTrialEnd
    \/ BaselineReturn
    \/ WriteLocked
    \/ Gate
    \/ MutationTrialStart
    \/ MutationTrialEnd
    \/ MutationsReturn
    \/ EpisodeRaises

Spec == Init /\ [][Next]_vars

(***************************************************************************)
(* calibrate_action_scale on its own, over richer candidate lists.         *)
(***************************************************************************)
MaxCalEpisodes == 3

CalScaleLists == {<<25, 50, 50, 100>>, <<50, 25>>, <<100>>, <<>>}

CalConfigs ==
    {[policy |-> "octo-base", policy_setup |-> "google_robot",
      tasks |-> <<TaskUniverse[1]>>, seeds |-> s,
      calibration_scales |-> l, calibration_episodes |-> n]
     : s \in SeedLists, l \in CalScaleLists, n \in 0..MaxCalEpisodes}

CalInit ==
    /\ phase = "align"
    /\ cfg \in CalConfigs
    /\ pc = "load"
    /\ RunIdle
    /\ ledger = NoFile
    /\ appended = <<>>
    /\ invocation = 1
    /\ episode = <<>>
    /\ MutIdle

CalNext ==
    \/ Load
    \/ CalEpisodeStart
    \/ CalEpisodeEnd
    \/ CalScaleDone
    \/ CalReturn

CalSpec == CalInit /\ [][CalNext]_vars

(***************************************************************************)
(* run_baseline over the outcomes of all its trials: align runs whose      *)
(* configuration has no calibration candidate, so that calibration returns *)
(* at once, and in which up to MaxEarly episodes end before max_steps.     *)
(***************************************************************************)
MaxEarly == 3

RateConfigs == {("calibration_scales" :> <<>>) @@ g : g \in GridConfigs}

RateInit ==
    /\ phase = "align"
    /\ cfg \in RateConfigs
    /\ pc = "load"
    /\ RunStart(MaxEarly)
    /\ ledger = NoFile
    /\ appended = <<>>
    /\ invocation = 1
    /\ episode = <<>>
    /\ MutIdle

RateNext ==
    \/ Load
    \/ CalReturn
    \/ BaselineTrialStart
    \/ BaselineTrialEnd
    \/ BaselineReturn

RateSpec == RateInit /\ [][RateNext]_vars

(***************************************************************************)
(* _run_episode on its own, step by step (lines 126-166).  Gripper         *)
(* commands are in hundredths: -100 is fully closed, the closing threshold *)
(* is -50.  episode[1].sent lists the env.step calls made: the raw gripper *)
(* command of the policy, the one handed to the simulator, and whether the *)
(* simulator reported termination or truncation.  episode[1].report is     *)
(* what the last env.step returned.                                        *)
(***************************************************************************)
MaxSteps == 4

MaxGrasp == 2

\* A faulty variant of Grasp: the counter is armed one step short.
GraspShort(raw, sticky, n) ==
    IF n > 0 /\ sticky > 0 THEN [gripper |-> 0 - 100, sticky_remaining |-> sticky - 1]
    ELSE IF n > 0 /\ raw < 0 - 50 THEN [gripper |-> 0 - 100, sticky_remaining |-> n - 1]
    ELSE [gripper |-> raw, sticky_remaining |-> sticky]

\* Lines 138-144: the gripper command sent and the sticky counter after it.
Grasp(raw, sticky, n) ==
    IF n > 0
    THEN IF sticky > 0 THEN [gripper |-> 0 - 100, sticky_remaining |-> sticky - 1]
         ELSE IF raw < 0 - 50 THEN [gripper |-> 0 - 100, sticky_remaining |-> n]
         ELSE [gripper |-> raw, sticky_remaining |-> sticky]
    ELSE [gripper |-> raw, sticky_remaining |-> sticky]

\* A faulty variant of Success: without a flag the episode is a failure.
SuccessOrFalse(info, terminated) == Get(info, "success", FALSE)

\* Line 152: bool(info.get("success", terminated))
Success(info, terminated) == Get(info, "success", terminated)

\* A faulty variant of GoesOn: no break at termination or truncation.
GoesOnPastEnd(steps, max_steps, report) == steps < max_steps

\* Lines 133 and 151-154: the loop body runs once more.
GoesOn(steps, max_steps, report) ==
    /\ steps < max_steps
    /\ ~(report # <<>> /\ (report[1].terminated \/ report[1].truncated))

\* The state after lines 120-131, for each max_steps and heuristic_grasp_steps.
EpisodeInit ==
    /\ phase = "none"
    /\ cfg \in {("max_steps" :> m) @@ ("heuristic_grasp_steps" :> n) @@
                 [policy |-> "octo-base", policy_setup |-> "google_robot",
                  tasks |-> <<TaskUniverse[1]>>]
                 : m \in 0..MaxSteps, n \in 0..MaxGrasp}
    /\ pc = "episode"
    /\ RunIdle
    /\ ledger = NoFile
    /\ appended = <<>>
    /\ invocation = 1
    /\ MutIdle
    /\ episode = << [steps |-> 0, success |-> FALSE, distance_to_target |-> None,
                     sticky_remaining |-> 0, sent |-> <<>>, report |-> <<>>,
                     result |-> <<>>] >>

\* Lines 134-155: one pass of the loop body.  The policy's raw gripper
\* command and what the simulator reports are the inputs; a report that
\* ends the episode carries an info with or without a success flag and a
\* distance.
EpisodeStep ==
    /\ pc = "episode"
    /\ episode[1].result = <<>>
    /\ GoesOn(episode[1].steps, Config.max_steps, episode[1].report)
    /\ \E raw \in {0 - 60, 0 - 50, 100}, terminated \in BOOLEAN, truncated \in BOOLEAN,
          flag \in {{}, {TRUE}, {FALSE}}, distance \in {{}, {"0.05"}} :
         LET e     == episode[1]
             g     == Grasp(raw, e.sticky_remaining, Config.heuristic_grasp_steps)
             info  == [key \in (IF flag = {} THEN {} ELSE {"success"}) \cup
                                (IF distance = {} THEN {} ELSE {"distance_to_target"}) |->
                         IF key = "success" THEN TRUE \in flag ELSE "0.05"]
             ended == terminated \/ truncated
         IN  /\ (~ended => (flag = {} /\ distance = {}))
             /\ episode' = << [steps |-> e.steps + 1,
                               success |-> IF ended THEN Success(info, terminated)
                                           ELSE e.success,
                               distance_to_target |->
                                   IF ended THEN Get(info, "distance_to_target", None)
                                   ELSE e.distance_to_target,
                               sticky_remaining |-> g.sticky_remaining,
                               sent |-> Append(e.sent, [raw |-> raw, gripper |-> g.gripper,
                                                        ended |-> ended]),
                               report |-> << [terminated |-> terminated,
                                              truncated |-> truncated, info |-> info] >>,
                               result |-> <<>>] >>
    /\ UNCHANGED << ledger, appended, invocation >>
    /\ UNCHANGED runVars
    /\ UNCHANGED mutVars

\* Lines 157-166: the loop is over; the note is set and the dict returned.
EpisodeReturn ==
    /\ pc = "episode"
    /\ episode[1].result = <<>>
    /\ ~GoesOn(episode[1].steps, Config.max_steps, episode[1].report)
    /\ episode' = << [episode[1] EXCEPT !.result =
                        << EpisodeResult(episode[1].success, episode[1].distance_to_target,
                                         episode[1].steps) >>] >>
    /\ UNCHANGED << ledger, appended, invocation >>
    /\ UNCHANGED runVars
    /\ UNCHANGED mutVars

EpisodeSpec == EpisodeInit /\ [][EpisodeStep \/ EpisodeReturn]_vars

(***************************************************************************)
(* A caller of one of the libraries alone: main() is not running.          *)
(***************************************************************************)
Standalone(where) ==
    /\ phase = "none"
    /\ cfg = <<>>
    /\ pc = where
    /\ RunIdle

(***************************************************************************)
(* append_csv called over several process invocations on one path.         *)
(***************************************************************************)
MaxAppends == 3

MaxInvocations == 2

\* The rows the callers hand over.
LedgerRowChoices ==
    {BaselineRow(id, TaskUniverse[1], LanguageInstruction(TaskUniverse[1]), 0,
                 EpisodeResult(s, None, 1)) : id \in 0..1, s \in BOOLEAN}

LedgerInit ==
    /\ Standalone("ledger")
    /\ ledger = NoFile
    /\ appended = <<>>
    /\ invocation = 1
    /\ episode = <<>>
    /\ MutIdle

\* One call of append_csv by the current invocation.
AppendRow ==
    /\ pc = "ledger"
    /\ Len(appended) < MaxAppends
    /\ \E row \in LedgerRowChoices :
         /\ ledger' = append_csv(ledger, DEFAULT_FIELDS, row)
         /\ appended' = Append(appended, [row |-> row, invocation |-> invocation])
    /\ UNCHANGED << invocation >>
    /\ UNCHANGED runVars
    /\ UNCHANGED mutVars
    /\ UNCHANGED episode

\* The process exits and another one starts; the file stays.
NewInvocation ==
    /\ pc = "ledger"
    /\ invocation < MaxInvocations
    /\ invocation' = invocation + 1
    /\ UNCHANGED << ledger, appended >>
    /\ UNCHANGED runVars
    /\ UNCHANGED mutVars
    /\ UNCHANGED episode

LedgerNext ==
    \/ AppendRow
    \/ NewInvocation

LedgerSpec == LedgerInit /\ [][LedgerNext]_vars

(***************************************************************************)
(* generate_mutation called once, over a vocabulary of instructions.       *)
(***************************************************************************)
MaxWords == 2

Words ==
    { <<"p","i","c","k">>, <<"c","o","k","e">>, <<"n","o","w">>, <<"k","n","o","w">>,
      <<"D","o","n","'","t">>, <<"o","n">>, <<"t","a","b","l","e">>, <<"\\","w">> }

\* " ".join(ws)
RECURSIVE Join(_)
Join(ws) ==
    IF ws = <<>> THEN <<>>
    ELSE IF Len(ws) = 1 THEN ws[1]
    ELSE ws[1] \o <<" ">> \o Join(Tail(ws))

Instructions == {Join(ws) : ws \in UNION {[1..n -> Words] : n \in 0..MaxWords}}

\* The ten categories and one that is not defined.
CategoryChoices == Range(MUTATION_CATEGORIES) \cup {"emphasis"}

EngineArgs ==
    {[instruction |-> i, category |-> c, seed |-> s]
     : i \in Instructions, c \in CategoryChoices, s \in 0..(MaxSeeds - 1)}

MutInit ==
    /\ Standalone("engine")
    /\ ledger = NoFile
    /\ appended = <<>>
    /\ invocation = 1
    /\ episode = <<>>
    /\ mcall \in {<<a>> : a \in EngineArgs}
    /\ mresult = <<>>
    /\ rng = NoRandom
    /\ probe = <<>>

\* The caller gets the text (or the exception); the Random object is left
\* as the call used it.
Returns(m) ==
    /\ mresult' = << [text |-> m.text, raised |-> m.raised] >>
    /\ rng' = m.rng

\* The call returns (or raises).
MutCall ==
    /\ pc = "engine"
    /\ mresult = <<>>
    /\ Returns(generate_mutation(mcall[1].instruction, mcall[1].category, mcall[1].seed))
    /\ UNCHANGED << mcall, probe, ledger, appended, invocation >>
    /\ UNCHANGED runVars
    /\ UNCHANGED episode

MutSpec == MutInit /\ [][MutCall]_vars

(***************************************************************************)
(* generate_mutation called again and again, in any order.                 *)
(***************************************************************************)
\* Five categories whose mutators draw from the random source on the
\* simulator's instructions, and one whose mutator does not.
DetCategories ==
    {"synonyms", "formal_informal", "verb_phrasing", "object_descriptors",
     "negation_positive", "passive_voice"}

DetArgs ==
    {[instruction |-> LanguageInstruction(TaskUniverse[t]), category |-> c, seed |-> s]
     : t \in 1..MaxTasks, c \in DetCategories, s \in 0..(MaxSeeds - 1)}

DetInit ==
    /\ Standalone("calls")
    /\ ledger = NoFile
    /\ appended = <<>>
    /\ invocation = 1
    /\ episode = <<>>
    /\ MutIdle

\* One call, with any arguments.  A call with other arguments than the
\* remembered one is noted in the probe.
DetCall ==
    /\ pc = "calls"
    /\ \E a \in DetArgs :
         /\ mcall' = << a >>
         /\ Returns(generate_mutation(a.instruction, a.category, a.seed))
         /\ probe' = IF probe # <<>> /\ probe[1].call # a
                     THEN << [probe[1] EXCEPT !.interleaved = TRUE] >>
                     ELSE probe
    /\ UNCHANGED << ledger, appended, invocation >>
    /\ UNCHANGED runVars
    /\ UNCHANGED episode

\* The caller keeps the last call and its result.
Remember ==
    /\ pc = "calls"
    /\ mcall # <<>>
    /\ probe = <<>>
    /\ probe' = << [call |-> mcall[1], result |-> mresult[1], interleaved |-> FALSE] >>
    /\ UNCHANGED << mcall, mresult, rng, ledger, appended, invocation >>
    /\ UNCHANGED runVars
    /\ UNCHANGED episode

DetNext ==
    \/ DetCall
    \/ Remember

DetSpec == DetInit /\ [][DetNext]_vars

(***************************************************************************)
(* Reading the ledger.                                                     *)
(***************************************************************************)
\* The column of a field.
Col(name) == CHOOSE i \in 1..Len(DEFAULT_FIELDS) : DEFAULT_FIELDS[i] = name

Field(line, name) == line[Col(name)]

\* The data rows of the ledger of a run that started without a ledger.
Rows == IF ledger.exists THEN Tail(ledger.lines) ELSE <<>>

IsBaselineRow(line) == Field(line, "mutation_category") = "baseline"

IsSweepRow(line) == ~IsBaselineRow(line)

IsSuccessRow(line) == Field(line, "success")

BaselineRows == SelectSeq(Rows, IsBaselineRow)

SweepRows == SelectSeq(Rows, IsSweepRow)

\* run_baseline has returned a rate below the configured minimum.
BelowMinimum ==
    /\ phase \in {"align", "all"}
    /\ baseline_sr # NoRate
    /\ baseline_sr.num * 100 < Config.baseline_min_sr * baseline_sr.den

(***************************************************************************)
(* C1 (baseline gate).  In an align or all run, once run_baseline has      *)
(* returned a rate below baseline_min_sr, the run writes the locked config *)
(* and stops: run_mutations is never entered and the ledger gets no row    *)
(* with a mutation category.  With baseline_min_sr = 1.1 no outcome of the *)
(* baseline trials lets the sweep start.                                   *)
(***************************************************************************)
C1_BaselineGate ==
    /\ BelowMinimum =>
         /\ pc \in {"lock", "gate", "done"}
         /\ running = <<>>
         /\ mu = NoMutations
         /\ SweepRows = <<>>
         /\ (pc = "done" => locked # <<>>)
    /\ (phase \in {"align", "all"} /\ Get(cfg, "baseline_min_sr", 90) = 110) =>
         /\ pc # "mutations"
         /\ mu = NoMutations
         /\ SweepRows = <<>>

\* An all run whose only baseline trial succeeded, stopped by a minimum of 1.1.
C1_Witness ==
    /\ phase = "all"
    /\ pc = "done"
    /\ BelowMinimum
    /\ Config.baseline_min_sr = 110
    /\ baseline_sr = [num |-> 1, den |-> 1]
    /\ locked # <<>>
    /\ Len(Rows) = 1

(***************************************************************************)
(* C2 (trial ids).  No two rows appended during one invocation carry the   *)
(* same trial_id, and trial_id strictly increases in append order, in      *)
(* every phase.                                                            *)
(***************************************************************************)
C2_TrialIdsIncrease ==
    \A i, j \in 1..Len(Rows) :
        i < j => Field(Rows[i], "trial_id") < Field(Rows[j], "trial_id")

(***************************************************************************)
(* C3 (locked config).  In an align or all run, once run_baseline has      *)
(* returned, the locked config is written before the gate is looked at,    *)
(* whether the gate passes or fails; its baseline_sr is the rate of the    *)
(* baseline trials of this run, as run_baseline returned it, and its       *)
(* action_scale is the scale calibrate_action_scale returned.              *)
(***************************************************************************)
C3_LockedConfig ==
    /\ (phase \in {"align", "all"} /\ pc \in {"gate", "done", "mutations"}) =>
         locked # <<>>
    /\ locked # <<>> =>
         /\ locked[1].baseline_sr =
              [num |-> Len(SelectSeq(BaselineRows, IsSuccessRow)),
               den |-> IF Len(BaselineRows) = 0 THEN 1 ELSE Len(BaselineRows)]
         /\ locked[1].baseline_sr = baseline_sr
         /\ locked[1].action_scale = cal.best_scale
         /\ \E i \in 1..Len(Config.calibration_scales) :
              locked[1].action_scale = Config.calibration_scales[i]

\* A run at a failed gate whose calibration chose the second candidate and
\* whose baseline had a success.
C3_Witness ==
    /\ pc = "done"
    /\ BelowMinimum
    /\ locked # <<>>
    /\ locked[1].action_scale = 25
    /\ locked[1].baseline_sr = [num |-> 1, den |-> 2]

(***************************************************************************)
(* C4 (ledger append across restarts).  Whatever the calls of append_csv   *)
(* and the invocations they were made in, on a path that did not exist at  *)
(* first: the file holds the header as its first line and then one line    *)
(* per call, in call order, each holding the fields of its row.            *)
(***************************************************************************)
C4_LedgerAppend ==
    /\ appended = <<>> => ledger = NoFile
    /\ appended # <<>> =>
         /\ ledger.exists
         /\ Len(ledger.lines) = Len(appended) + 1
         /\ ledger.lines[1] = DEFAULT_FIELDS
         /\ \A i \in 1..Len(appended) :
              /\ Len(ledger.lines[i + 1]) = Len(DEFAULT_FIELDS)
              /\ \A k \in 1..Len(DEFAULT_FIELDS) :
                   ledger.lines[i + 1][k] = appended[i].row[DEFAULT_FIELDS[k]]

\* Rows appended by a first invocation, then different rows by a second one.
C4_Witness ==
    /\ Len(appended) = MaxAppends
    /\ appended[1].invocation = 1
    /\ appended[Len(appended)].invocation = 2
    /\ appended[1].row # appended[Len(appended)].row
    /\ Len(ledger.lines) = MaxAppends + 1

(***************************************************************************)
(* C5 (mutation grid).  When run_mutations has returned, it has appended   *)
(* |tasks| x 10 x |seeds| rows: one per (task, category, seed), tasks      *)
(* outermost, then the categories in the order of MUTATION_CATEGORIES,     *)
(* seeds innermost; every row's category is one of the ten names.          *)
(***************************************************************************)
C5_MutationGrid ==
    (pc = "done" /\ mu # NoMutations) =>
        LET nt == Len(Config.tasks)
            ns == Len(Config.seeds)
        IN  /\ Len(SweepRows) = nt * 10 * ns
            /\ \A n \in 1..Len(SweepRows) :
                 /\ Field(SweepRows[n], "task") = Config.tasks[((n - 1) \div (10 * ns)) + 1]
                 /\ Field(SweepRows[n], "mutation_category")
                      = MUTATION_CATEGORIES[(((n - 1) \div ns) % 10) + 1]
                 /\ Field(SweepRows[n], "seed") = Config.seeds[((n - 1) % ns) + 1]
                 /\ Field(SweepRows[n], "mutation_category") \in
                      {"synonyms", "passive_voice", "spatial_reordering", "formal_informal",
                       "verb_phrasing", "object_descriptors", "directional_language",
                       "temporal_modifiers", "negation_positive", "complexity_variation"}

\* One task and two seeds: twenty rows.
C5_Witness ==
    /\ pc = "done"
    /\ mu # NoMutations
    /\ Len(Config.tasks) = 1
    /\ Len(Config.seeds) = 2
    /\ Len(SweepRows) = 20

(***************************************************************************)
(* C6 (baseline grid).  While run_baseline runs, the ledger holds one row  *)
(* per trial completed so far, the n-th row being that of the n-th         *)
(* (task, seed) pair in task-major order, with category baseline and the   *)
(* task's instruction as original and as mutated text; the episode in      *)
(* flight is that of the next pair, and at the end every pair has its row. *)
(***************************************************************************)
C6_BaselineGrid ==
    pc = "baseline" =>
        LET nt == Len(Config.tasks)
            ns == Len(Config.seeds)
            TaskOf(n) == Config.tasks[((n - 1) \div ns) + 1]
            SeedOf(n) == Config.seeds[((n - 1) % ns) + 1]
        IN  /\ Len(Rows) <= nt * ns
            /\ \A n \in 1..Len(Rows) :
                 /\ Field(Rows[n], "task") = TaskOf(n)
                 /\ Field(Rows[n], "seed") = SeedOf(n)
                 /\ Field(Rows[n], "mutation_category") = "baseline"
                 /\ Field(Rows[n], "original_instruction") = LanguageInstruction(TaskOf(n))
                 /\ Field(Rows[n], "mutated_instruction") = LanguageInstruction(TaskOf(n))
            /\ running # <<>> =>
                 /\ Len(Rows) < nt * ns
                 /\ running[1].task = TaskOf(Len(Rows) + 1)
                 /\ running[1].seed = SeedOf(Len(Rows) + 1)
            /\ (running = <<>> /\ bl.t > nt) => Len(Rows) = nt * ns

\* Two tasks and two seeds: three rows in, the fourth trial in flight.
C6_Witness ==
    /\ pc = "baseline"
    /\ Len(Config.tasks) = 2
    /\ Len(Config.seeds) = 2
    /\ running # <<>>
    /\ running[1].task = Config.tasks[2]
    /\ running[1].seed = Config.seeds[2]
    /\ Len(Rows) = 3

(***************************************************************************)
(* C7 (calibration tie-break).  The scale calibrate_action_scale returns   *)
(* is a candidate of maximal rate, and every candidate before it in the    *)
(* configured order has a lower rate.                                      *)
(***************************************************************************)
C7_CalibrationTieBreak ==
    (pc = "baseline" /\ phase = "align" /\ Config.calibration_scales # <<>>) =>
        LET scales == Config.calibration_scales
            Lower_(a, b) == a.num * b.den < b.num * a.den
        IN  /\ Len(calRates) = Len(scales)
            /\ \E i \in 1..Len(scales) :
                 /\ action_scale = scales[i]
                 /\ \A j \in 1..Len(scales) : ~Lower_(calRates[i], calRates[j])
                 /\ \A j \in 1..(i - 1) : Lower_(calRates[j], calRates[i])
            /\ ((\A j \in 1..Len(scales) : calRates[j] = calRates[1])
                  => action_scale = scales[1])

\* [0.25, 0.5, 0.5, 1.0], every candidate succeeding in every episode.
C7_Witness ==
    /\ pc = "baseline"
    /\ Config.calibration_scales = <<25, 50, 50, 100>>
    /\ Len(calRates) = 4
    /\ \A j \in 1..4 : calRates[j] = [num |-> 2, den |-> 2]
    /\ action_scale = 25

(***************************************************************************)
(* C8 (mutation determinism).  A call of generate_mutation with the same   *)
(* arguments as a remembered call returns what the remembered call         *)
(* returned, whatever calls were made in between.                          *)
(***************************************************************************)
C8_MutationDeterminism ==
    (probe # <<>> /\ mcall # <<>> /\ mcall[1] = probe[1].call) =>
        mresult[1] = probe[1].result

\* The remembered call drew from its random source, other calls followed,
\* and the remembered call has been made again.
C8_Witness ==
    /\ probe # <<>>
    /\ probe[1].interleaved
    /\ mcall # <<>>
    /\ mcall[1] = probe[1].call
    /\ rng.pos > 0
    /\ mresult[1].text # mcall[1].instruction

(***************************************************************************)
(* C9 (non-identity).  For each of the ten categories and each non-empty   *)
(* instruction, what generate_mutation returns differs from the            *)
(* instruction.                                                            *)
(***************************************************************************)
C9_OutputDiffers ==
    (pc = "engine" /\ mresult # <<>>
       /\ mcall[1].category \in Range(MUTATION_CATEGORIES)
       /\ mcall[1].instruction # <<>>) =>
        /\ ~mresult[1].raised
        /\ mresult[1].text # mcall[1].instruction

(***************************************************************************)
(* C10 (passive voice).  For an instruction "<verb> <rest>", a first word  *)
(* of word characters, a space and a non-empty rest, passive_voice returns *)
(* "<rest> should be <verb>ed" with the verb lower-cased (a final full     *)
(* stop is allowed).                                                       *)
(***************************************************************************)
\* The length of the leading run of word characters.
RECURSIVE VerbLength(_)
VerbLength(s) == IF s # <<>> /\ s[1] \in WordChars THEN 1 + VerbLength(Tail(s)) ELSE 0

C10_PassiveRewrite ==
    (pc = "engine" /\ mresult # <<>> /\ mcall[1].category = "passive_voice") =>
        LET s    == mcall[1].instruction
            n    == VerbLength(s)
            verb == SubSeq(s, 1, n)
            rest == Strip(From(s, n + 2))
            want == rest \o <<" ","s","h","o","u","l","d"," ","b","e"," ">>
                         \o Lower(verb) \o <<"e","d">>
        IN  (n > 0 /\ n < Len(s) /\ s[n + 1] = " " /\ rest # <<>>) =>
                (mresult[1].text = want \/ mresult[1].text = want \o <<".">>)

\* A configuration error: a required key is missing, or the task list or
\* the seed list is empty.
ConfigError ==
    \/ LoadRaises(cfg)
    \/ cfg["tasks"] = <<>>
    \/ Get(cfg, "seeds", <<0>>) = <<>>

(***************************************************************************)
(* C11 (configuration errors).  In every phase, a run whose configuration  *)
(* lacks a required key or has an empty task list or an empty seed list    *)
(* fails while the configuration is loaded: it never gets past the load,   *)
(* makes no simulator instance, runs no episode and writes no ledger row.  *)
(***************************************************************************)
C11_ConfigErrorsFatal ==
    ConfigError =>
        /\ pc \in {"load", "crashed"}
        /\ envs = {}
        /\ running = <<>>
        /\ ledger = NoFile

C13_LockedResolved ==
    locked # <<>> =>
        /\ DOMAIN Config \subseteq DOMAIN locked[1]
        /\ "baseline_sr" \in DOMAIN locked[1]
        /\ \A key \in DOMAIN Config \ {"action_scale"} : locked[1][key] = Config[key]

(***************************************************************************)
(* C14 (one simulator, one policy).  At every point of a run, at most one  *)
(* simulator instance and at most one policy instance are held.            *)
(***************************************************************************)
C14_OneInstanceLive ==
    /\ Cardinality(envs) <= 1
    /\ Cardinality(models) <= 1

(***************************************************************************)
(* C15 (standalone baseline).  A run of phase `baseline` runs no           *)
(* calibration episode, never reaches the lock or the gate, leaves the     *)
(* locked-config file unwritten and never enters the sweep; its episodes   *)
(* use the action scale of the configuration; run_baseline is run once, so *)
(* each trial of the grid has one row when the run ends, and the run ends  *)
(* normally after it whatever the outcomes were.                           *)
(***************************************************************************)
C15_StandaloneBaseline ==
    phase = "baseline" =>
        /\ pc \in {"load", "baseline", "done", "crashed"}
        /\ cal = NoCal
        /\ calRates = <<>>
        /\ locked = <<>>
        /\ lockWrites = 0
        /\ mu = NoMutations
        /\ SweepRows = <<>>
        /\ baseline_sr = NoRate
        /\ (running # <<>> => running[1].scale = Get(cfg, "action_scale", 100))
        /\ Len(Rows) = bl.total
        /\ (pc = "done" => Len(Rows) = Len(Config.tasks) * Len(Config.seeds))

\* A baseline run with action_scale 0.75 that is over: four trials, none
\* of them a success.
C15_Witness ==
    /\ phase = "baseline"
    /\ pc = "done"
    /\ Get(cfg, "action_scale", 100) = 75
    /\ Len(Rows) = 4
    /\ \A i \in 1..Len(Rows) : ~IsSuccessRow(Rows[i])

\* How many baseline rows of the ledger report a success.
BaselineSuccesses ==
    Cardinality({i \in 1..Len(BaselineRows) : IsSuccessRow(BaselineRows[i])})

(***************************************************************************)
(* C16 (baseline success rate).  Once run_baseline has returned, the rate  *)
(* it returned is the number of its trials that succeeded over the number  *)
(* of trials it ran, one per task and seed; over an empty grid it is 0,    *)
(* with no division by zero; it always lies within [0, 1].                 *)
(***************************************************************************)
C16_BaselineRate ==
    baseline_sr # NoRate =>
        /\ Len(BaselineRows) = Len(Config.tasks) * Len(Config.seeds)
        /\ baseline_sr.den # 0
        /\ baseline_sr.num = BaselineSuccesses
        /\ IF Len(BaselineRows) = 0
           THEN baseline_sr.num = 0
           ELSE baseline_sr.den = Len(BaselineRows)
        /\ 0 <= baseline_sr.num
        /\ baseline_sr.num <= baseline_sr.den

\* Two of four baseline trials succeeded: the rate returned is 2/4.
C16_Witness ==
    /\ pc = "lock"
    /\ Len(BaselineRows) = 4
    /\ BaselineSuccesses = 2
    /\ baseline_sr = [num |-> 2, den |-> 4]

(***************************************************************************)
(* C17 (unknown category).  A call of generate_mutation with a category    *)
(* that is not one of the ten returns the instruction as it was given, the *)
(* empty one included, and raises nothing, whatever the seed.              *)
(***************************************************************************)
C17_UnknownCategory ==
    (mresult # <<>> /\ mcall[1].category \notin Range(MUTATION_CATEGORIES)) =>
        /\ ~mresult[1].raised
        /\ mresult[1].text = mcall[1].instruction

\* generate_mutation("", "emphasis", 1) has returned.
C17_Witness ==
    /\ mresult # <<>>
    /\ mcall[1].category = "emphasis"
    /\ mcall[1].instruction = <<>>
    /\ mcall[1].seed = 1
    /\ mresult[1] = [text |-> <<>>, raised |-> FALSE]

(***************************************************************************)
(* C18 (negation to avoid).  generate_mutation with negation_positive on   *)
(* an instruction that holds "don't" or "do not", at any position and in   *)
(* any letter case, returns a text that holds "avoid" and holds neither    *)
(* negation any more.                                                      *)
(***************************************************************************)
C18_NegationRewritten ==
    (/\ mresult # <<>>
     /\ mcall[1].category = "negation_positive"
     /\ \/ Contains(Lower(mcall[1].instruction), TxtDont)
        \/ Contains(Lower(mcall[1].instruction), TxtDoNot)) =>
        /\ ~mresult[1].raised
        /\ Contains(Lower(mresult[1].text), TxtAvoid)
        /\ ~Contains(Lower(mresult[1].text), TxtDont)
        /\ ~Contains(Lower(mresult[1].text), TxtDoNot)

\* run_baseline has been entered; run_mutations has been entered.
BaselineStarted == bl # NoBaseline

SweepStarted == mu # NoMutations

(***************************************************************************)
(* C19 (phase order).  In an all run: while calibration runs, run_baseline *)
(* has not been entered; once it has, every calibration candidate has been *)
(* measured; the locked config is written only after the last baseline     *)
(* trial has ended and its row is in the ledger; the sweep is entered only *)
(* after that write; and the file is written once, never a second time.    *)
(***************************************************************************)
C19_PhaseOrder ==
    (phase = "all" /\ ~LoadRaises(cfg)) =>
        /\ pc = "calibrate" => ~BaselineStarted
        /\ BaselineStarted =>
             /\ cal.k > Len(Config.calibration_scales)
             /\ Len(calRates) = Len(Config.calibration_scales)
        /\ pc \in {"calibrate", "baseline"} => (lockWrites = 0 /\ ~SweepStarted)
        /\ lockWrites >= 1 =>
             /\ BaselineStarted
             /\ bl.t > Len(Config.tasks)
             /\ Len(BaselineRows) = Len(Config.tasks) * Len(Config.seeds)
        /\ (SweepStarted \/ SweepRows # <<>> \/ pc = "mutations") =>
             /\ lockWrites = 1
             /\ locked # <<>>
        /\ lockWrites <= 1
        /\ (lockWrites = 0) = (locked = <<>>)

\* An all run that passed the gate and finished its sweep.
C19_Witness ==
    /\ phase = "all"
    /\ pc = "done"
    /\ Len(calRates) = 2
    /\ Len(BaselineRows) = 1
    /\ Len(SweepRows) = Len(MUTATION_CATEGORIES)
    /\ lockWrites = 1

(***************************************************************************)
(* C20 (resolved action scale).  Every sweep episode gets main's action    *)
(* scale.  In an all run that is the scale calibration returned, the one   *)
(* every baseline episode of the run got and the locked config holds as    *)
(* action_scale.  In a mutations run it is the action scale of the         *)
(* configuration, and the run goes from the load to the sweep: no          *)
(* calibration episode, no baseline trial, no locked config.               *)
(***************************************************************************)
C20_SweepScale ==
    /\ (pc = "mutations" /\ running # <<>>) => running[1].scale = action_scale
    /\ (phase = "all" /\ pc = "baseline" /\ running # <<>>) =>
           running[1].scale = cal.best_scale
    /\ (phase = "all" /\ (pc = "mutations" \/ SweepStarted)) =>
           /\ action_scale = cal.best_scale
           /\ locked # <<>>
           /\ locked[1]["action_scale"] = action_scale
    /\ phase = "mutations" =>
           /\ pc \in {"load", "mutations", "done", "crashed"}
           /\ pc = "mutations" => action_scale = Get(cfg, "action_scale", 100)
           /\ cal = NoCal
           /\ calRates = <<>>
           /\ ~BaselineStarted
           /\ BaselineRows = <<>>
           /\ locked = <<>>
           /\ lockWrites = 0

\* A sweep episode of an all run in which calibration chose the second
\* candidate, 0.25: the episode gets 0.25 and the locked config holds it.
C20_Witness ==
    /\ phase = "all"
    /\ pc = "mutations"
    /\ running # <<>>
    /\ running[1].scale = 25
    /\ Get(cfg, "action_scale", 100) = 100
    /\ locked[1]["action_scale"] = 25

\* The steps at which the closing threshold is crossed with the counter at
\* 0: a raw command below the threshold, no earlier than step `free`, the
\* first step past the hold of the arming before it.
RECURSIVE ArmedSteps(_, _, _, _)
ArmedSteps(sent, n, j, free) ==
    IF j > Len(sent) THEN {}
    ELSE IF j >= free /\ sent[j].raw < 0 - 50
         THEN {j} \cup ArmedSteps(sent, n, j + 1, j + n + 1)
         ELSE ArmedSteps(sent, n, j + 1, free)

\* The steps held closed: an arming step and the n steps after it.
HeldSteps(sent, n) ==
    {k \in 1..Len(sent) : \E a \in ArmedSteps(sent, n, 1, 1) : a <= k /\ k <= a + n}

\* The counter after the steps made: what is left of the last hold.
CounterAfter(sent, n) ==
    LET armed == ArmedSteps(sent, n, 1, 1)
        last  == CHOOSE a \in armed : \A b \in armed : b <= a
    IN  IF armed = {} \/ Len(sent) - last >= n THEN 0 ELSE n - (Len(sent) - last)

(***************************************************************************)
(* C21 (grasp stickiness).  With heuristic_grasp_steps = N > 0, the        *)
(* gripper command sent is fully closed at every step where the raw        *)
(* command crosses the closing threshold with the counter at 0 and at each *)
(* of the N steps after it, whatever the raw commands there; at every      *)
(* other step the raw command is sent unchanged; the counter goes down by  *)
(* one per held step and stays within 0..N.  With N = 0 the raw command is *)
(* always sent unchanged.                                                  *)
(***************************************************************************)
C21_GraspSticky ==
    episode # <<>> =>
        LET sent == episode[1].sent
            n    == Config.heuristic_grasp_steps
        IN  /\ episode[1].sticky_remaining \in 0..n
            /\ n = 0 => \A k \in 1..Len(sent) : sent[k].gripper = sent[k].raw
            /\ n > 0 =>
                 /\ \A k \in 1..Len(sent) :
                        sent[k].gripper = IF k \in HeldSteps(sent, n) THEN 0 - 100
                                          ELSE sent[k].raw
                 /\ episode[1].sticky_remaining = CounterAfter(sent, n)

\* N = 2: the threshold is crossed at step 1, the open commands of steps 2
\* and 3 are sent as fully closed, the open command of step 4 goes through.
C21_Witness ==
    /\ episode # <<>>
    /\ Config.heuristic_grasp_steps = 2
    /\ Len(episode[1].sent) = 4
    /\ episode[1].sent[1].raw = 0 - 60
    /\ \A k \in 2..4 : episode[1].sent[k].raw = 100
    /\ \A k \in 1..3 : episode[1].sent[k].gripper = 0 - 100
    /\ episode[1].sent[4].gripper = 100
    /\ episode[1].sticky_remaining = 0

(***************************************************************************)
(* C22 (episode loop bound).  _run_episode steps the simulator at most     *)
(* max_steps times; only the last step made can have reported termination *)
(* or truncation; it returns once a step has reported one or max_steps     *)
(* steps are made, with episode_length the number of steps made; when no   *)
(* step reported an end, the result is success = false, no distance, and   *)
(* the note that the distance was unavailable.                             *)
(***************************************************************************)
C22_EpisodeBound ==
    episode # <<>> =>
        LET e    == episode[1]
            sent == episode[1].sent
        IN  /\ Len(sent) <= Config.max_steps
            /\ e.steps = Len(sent)
            /\ \A k \in 1..(Len(sent) - 1) : ~sent[k].ended
            /\ e.result # <<>> =>
                 /\ e.result[1].episode_length = Len(sent)
                 /\ \/ Len(sent) = Config.max_steps
                    \/ sent[Len(sent)].ended
                 /\ (\A k \in 1..Len(sent) : ~sent[k].ended) =>
                        /\ e.result[1].success = FALSE
                        /\ e.result[1].distance_to_target = None
                        /\ e.result[1].notes = "distance_to_target unavailable"

\* max_steps = 4 and no step reported an end: the episode returned after
\* four steps, not successful, with no distance and the note.
C22_Witness ==
    /\ episode # <<>>
    /\ Config.max_steps = 4
    /\ episode[1].result # <<>>
    /\ Len(episode[1].sent) = 4
    /\ \A k \in 1..4 : ~episode[1].sent[k].ended
    /\ episode[1].result[1] =
           [success |-> FALSE, distance_to_target |-> None, episode_length |-> 4,
            notes |-> "distance_to_target unavailable"]

(***************************************************************************)
(* C23 (missing telemetry).  In every row of the ledger the distance is    *)
(* absent exactly when the note says it was unavailable, and a reported    *)
(* distance comes with an empty note; a trial whose distance is absent has *)
(* its row like any other and counts in the successes and the total the    *)
(* baseline rate is made of.                                               *)
(***************************************************************************)
C23_MissingTelemetry ==
    /\ \A i \in 1..Len(Rows) :
          IF Field(Rows[i], "distance_to_target") = None
          THEN Field(Rows[i], "notes") = "distance_to_target unavailable"
          ELSE Field(Rows[i], "notes") = ""
    /\ Len(Rows) = bl.total
    /\ bl.successes = BaselineSuccesses
    /\ baseline_sr # NoRate =>
          /\ baseline_sr.num = BaselineSuccesses
          /\ baseline_sr.den = Max1(Len(Rows))

\* Two trials, the first a success whose distance was absent, the second a
\* failure with a distance reported: both rows are there, the rate is 1/2.
C23_Witness ==
    /\ pc = "lock"
    /\ Len(Rows) = 2
    /\ IsSuccessRow(Rows[1])
    /\ Field(Rows[1], "distance_to_target") = None
    /\ Field(Rows[1], "notes") = "distance_to_target unavailable"
    /\ ~IsSuccessRow(Rows[2])
    /\ Field(Rows[2], "distance_to_target") = "0.05"
    /\ Field(Rows[2], "notes") = ""
    /\ baseline_sr = [num |-> 1, den |-> 2]

(***************************************************************************)
(* C24 (success determination).  When a step reports termination or        *)
(* truncation, the episode's success is the success flag of the            *)
(* simulator's info when info has one, and the termination flag when it    *)
(* has none: truncated only and no flag is a failure, terminated and no    *)
(* flag is a success.  The episode returns that value.                     *)
(***************************************************************************)
C24_SuccessDetermination ==
    (/\ episode # <<>>
     /\ episode[1].report # <<>>
     /\ episode[1].report[1].terminated \/ episode[1].report[1].truncated) =>
        LET r == episode[1].report[1]
        IN  /\ episode[1].success = IF "success" \in DOMAIN r.info THEN r.info["success"]
                                    ELSE r.terminated
            /\ ("success" \notin DOMAIN r.info /\ ~r.terminated) => ~episode[1].success
            /\ episode[1].result # <<>> => episode[1].result[1].success = episode[1].success

\* The third step reported termination with no success flag in info: the
\* episode returned success = true.
C24_Witness ==
    /\ episode # <<>>
    /\ episode[1].steps = 3
    /\ episode[1].report # <<>>
    /\ episode[1].report[1].terminated
    /\ "success" \notin DOMAIN episode[1].report[1].info
    /\ episode[1].result # <<>>
    /\ episode[1].result[1].success = TRUE

(***************************************************************************)
(* C25 (calibration schedule).  Every calibration episode that starts runs *)
(* the candidate next in the configured order after the ones measured, is  *)
(* one of calibration_episodes episodes of that candidate, and, being the  *)
(* i-th of them (from 0), gets the seed seeds[i mod |seeds|]; a candidate  *)
(* is measured when exactly calibration_episodes of its episodes have      *)
(* ended; and no step of calibration touches the ledger.                   *)
(***************************************************************************)
C25_CalibrationSchedule ==
    [][ /\ ledger' = NoFile
        /\ (running = <<>> /\ running' # <<>>) =>
              /\ cal.i < Config.calibration_episodes
              /\ running'[1].scale = Config.calibration_scales[Len(calRates) + 1]
              /\ running'[1].seed = Config.seeds[(cal.i % Len(Config.seeds)) + 1]
              /\ running'[1].task = Config.tasks[1]
              /\ cal' = cal
        /\ (running # <<>> /\ running' = <<>>) =>
              /\ cal'.i = cal.i + 1
              /\ calRates' = calRates
        /\ calRates' # calRates =>
              /\ cal.i = Config.calibration_episodes
              /\ cal'.i = 0
              /\ Len(calRates') = Len(calRates) + 1 ]_vars

\* The third episode (i = 2) of the second candidate, over two seeds: it
\* gets the first seed again.
C25_Witness ==
    /\ pc = "calibrate"
    /\ running # <<>>
    /\ Len(calRates) = 1
    /\ cal.i = 2
    /\ Len(Config.seeds) = 2
    /\ running[1].seed = Config.seeds[1]
    /\ running[1].scale = Config.calibration_scales[2]
    /\ ledger = NoFile

=============================================================================
